---- MODULE Spec2Model ----
(***************************************************************************)
(* Model of conda_forge_tick's migration dispatcher (migration_runner.py)  *)
(* and feedstock parser (feedstock_parser.py).                             *)
(*                                                                         *)
(* Python values are modelled as strings ("None", "True", "False", ...)    *)
(* so that one variable can hold values of several Python types.           *)
(***************************************************************************)
EXTENDS Integers, Sequences, FiniteSets, TLC

VARIABLES
    environ,        \* value of os.environ["CF_TICK_IN_CONTAINER"] ("unset" when absent)
    migrator,       \* the migrator object: what migrate returns, which step raises
    mig_pc,         \* position inside the current run_migration call
    use_container,  \* the use_container argument of the current call
    path,           \* which implementation run_migration dispatched to
    calls,          \* migrator methods invoked by the current call, in order
    attrs,          \* feedstock_ctx.attrs: the marks left by the hooks that ran
    data,           \* the data dict of run_migration_local
    outcome,        \* how the current call ended
    resLocal,       \* result of the last call finished through the local path
    resCont         \* result of the last call finished through the containerized path

migVars == <<environ, migrator, mig_pc, use_container, path, calls, attrs,
             data, outcome, resLocal, resCont>>

VARIABLES
    inp,            \* the arguments of populate_feedstock_attributes and the renderer
    sub_graph,      \* the record being populated
    pop_pc,         \* position inside the current call
    plat_arch,      \* the local list plat_arch
    variant_yamls,  \* the local list variant_yamls
    todo,           \* build-config files still to be rendered, in sorted order
    render_log,     \* the renderer's invocations: (platform, arch) and what identifies the call
    written,        \* the keys of sub_graph assigned by the current call
    pop_outcome,    \* how the current call ended
    exc,            \* text of the exception the current call raised
    ncalls,         \* number of calls started on the record
    prev            \* the record the previous call returned

popVars == <<inp, sub_graph, pop_pc, plat_arch, variant_yamls, todo,
             render_log, written, pop_outcome, exc, ncalls, prev>>

VARIABLES
    ext,            \* a call of _extract_requirements: arguments, position, result
    ld,             \* a call of load_feedstock_local: arguments, position, result
    ct,             \* a call of load_feedstock_containerized: arguments, position, result
    lf              \* a call of load_feedstock: arguments, position, result

\* what the dispatcher leaves alone
nonMigVars == <<popVars, ext, ld, ct, lf>>

\* what populate_feedstock_attributes leaves alone
nonPopVars == <<migVars, ext, ld, ct, lf>>

(***************************************************************************)
(* Execution dispatcher: migration_runner.py                               *)
(***************************************************************************)

\* the values CF_TICK_IN_CONTAINER takes in the model
EnvValues == {"unset", "true", "false", "1"}

\* use_container is a bool or None; the signature's default is False
UseContainerValues == {"True", "False", "None"}

\* what migrator.migrate may return: falsy values and truthy ones
MigrateReturns == {"None", "False", "EmptyDict", "True", "MigrationUid"}

\* Python truthiness of the modelled values
Truthy(v) == v \notin {"None", "False", "EmptyDict", "", "0"}

\* the migrator methods run_migration_local calls, in source order
Steps == <<"run_pre_piggyback_migrations", "migrate",
           "run_post_piggyback_migrations", "commit_message", "pr_body",
           "pr_title">>

StepNames == {Steps[i] : i \in 1..Len(Steps)}

Migrators == [ret : MigrateReturns, raiseAt : StepNames \cup {"none"}]

\* data = {"migrate_return_value": None, "commit_message": None, ...}
InitialData == [migrate_return_value |-> "None", commit_message |-> "None",
                pr_title |-> "None", pr_body |-> "None"]

\* no data dict exists (before run_migration_local built it)
NoData == [migrate_return_value |-> "absent", commit_message |-> "absent",
           pr_title |-> "absent", pr_body |-> "absent"]

NoRes == [outcome |-> "none", data |-> NoData]

\* os.environ.get("CF_TICK_IN_CONTAINER", "false") == "true"
InContainer(env) == (IF env = "unset" THEN "false" ELSE env) = "true"

\* use_container after "if use_container is None: use_container = not in_container"
InferUseContainer(uc, env) ==
    IF uc = "None" THEN ~InContainer(env) ELSE uc = "True"

\* the dispatch test without its "and not in_container" half
TakesContainerizedMutant(uc, env) == InferUseContainer(uc, env)

\* the dispatch test with the in_container half inverted
TakesContainerizedInverted(uc, env) ==
    InferUseContainer(uc, env) /\ InContainer(env)

\* the test "use_container and not in_container" of run_migration
TakesContainerized(uc, env) ==
    InferUseContainer(uc, env) /\ ~InContainer(env)

MigInit ==
    /\ environ \in EnvValues
    /\ migrator \in Migrators
    /\ mig_pc = "idle"
    /\ use_container = "None"
    /\ path = "none"
    /\ calls = <<>>
    /\ attrs = ""
    /\ data = NoData
    /\ outcome = "none"
    /\ resLocal = NoRes
    /\ resCont = NoRes

\* run_migration: decide between the containerized and the local implementation
RunMigration ==
    /\ mig_pc \in {"idle", "done"}
    /\ \E uc \in UseContainerValues :
        /\ use_container' = uc
        /\ IF TakesContainerized(uc, environ)
           THEN path' = "containerized" /\ mig_pc' = "containerized"
           ELSE path' = "local" /\ mig_pc' = "local"
    /\ calls' = <<>>
    /\ attrs' = ""
    /\ data' = NoData
    /\ outcome' = "running"
    /\ UNCHANGED <<environ, migrator, resLocal, resCont>>
    /\ UNCHANGED nonMigVars

\* a containerized implementation that would run the steps and hand back data
RunMigrationContainerizedMutant ==
    /\ mig_pc = "containerized"
    /\ mig_pc' = "done"
    /\ outcome' = "returned"
    /\ data' = [InitialData EXCEPT !.migrate_return_value = migrator.ret]
    /\ resCont' = [outcome |-> "returned", data |-> data']
    /\ UNCHANGED <<environ, migrator, use_container, path, calls, attrs, resLocal>>
    /\ UNCHANGED nonMigVars

\* run_migration_containerized: raise NotImplementedError
RunMigrationContainerized ==
    /\ mig_pc = "containerized"
    /\ mig_pc' = "done"
    /\ outcome' = "NotImplementedError"
    /\ resCont' = [outcome |-> "NotImplementedError", data |-> data]
    /\ UNCHANGED <<environ, migrator, use_container, path, calls, attrs, data,
                   resLocal>>
    /\ UNCHANGED nonMigVars

\* a migrator method raises: the exception leaves run_migration_local
StepRaises(step) ==
    /\ migrator.raiseAt = step
    /\ calls' = Append(calls, step)
    /\ mig_pc' = "done"
    /\ outcome' = "raised"
    /\ resLocal' = [outcome |-> "raised", data |-> NoData]

\* run_migration_local, lines 117-132: build the context and the data dict,
\* run the pre-migration hook
LocalPre ==
    /\ mig_pc = "local"
    /\ \/ /\ StepRaises(Steps[1])
          /\ data' = InitialData
          /\ UNCHANGED attrs
       \/ /\ migrator.raiseAt # Steps[1]
          /\ calls' = Append(calls, Steps[1])
          /\ attrs' = attrs \o "[pre]"
          /\ data' = InitialData
          /\ mig_pc' = "migrate"
          /\ UNCHANGED <<outcome, resLocal>>
    /\ UNCHANGED <<environ, migrator, use_container, path, resCont>>
    /\ UNCHANGED nonMigVars

\* a migrate step that goes on to the post hook whatever migrate returned
LocalMigrateMutant ==
    /\ mig_pc = "migrate"
    /\ migrator.raiseAt # Steps[2]
    /\ calls' = Append(calls, Steps[2])
    /\ attrs' = attrs \o "[migrate]"
    /\ data' = [data EXCEPT !.migrate_return_value = migrator.ret]
    /\ mig_pc' = "post"
    /\ UNCHANGED <<outcome, resLocal>>
    /\ UNCHANGED <<environ, migrator, use_container, path, resCont>>
    /\ UNCHANGED nonMigVars

\* a migrate step that goes straight to the derived fields when its value is
\* truthy, leaving out the post hook
LocalMigrateSkipsPost ==
    /\ mig_pc = "migrate"
    /\ migrator.raiseAt # Steps[2]
    /\ calls' = Append(calls, Steps[2])
    /\ attrs' = attrs \o "[migrate]"
    /\ data' = [data EXCEPT !.migrate_return_value = migrator.ret]
    /\ IF ~Truthy(migrator.ret)
       THEN /\ mig_pc' = "done"
            /\ outcome' = "returned"
            /\ resLocal' = [outcome |-> "returned", data |-> data']
       ELSE /\ mig_pc' = "commit_message"
            /\ UNCHANGED <<outcome, resLocal>>
    /\ UNCHANGED <<environ, migrator, use_container, path, resCont>>
    /\ UNCHANGED nonMigVars

\* lines 134-138: migrate, and return data at once if its value is falsy
LocalMigrate ==
    /\ mig_pc = "migrate"
    /\ \/ /\ StepRaises(Steps[2])
          /\ UNCHANGED <<attrs, data>>
       \/ /\ migrator.raiseAt # Steps[2]
          /\ calls' = Append(calls, Steps[2])
          /\ attrs' = attrs \o "[migrate]"
          /\ data' = [data EXCEPT !.migrate_return_value = migrator.ret]
          /\ IF ~Truthy(migrator.ret)
             THEN /\ mig_pc' = "done"
                  /\ outcome' = "returned"
                  /\ resLocal' = [outcome |-> "returned", data |-> data']
             ELSE /\ mig_pc' = "post"
                  /\ UNCHANGED <<outcome, resLocal>>
    /\ UNCHANGED <<environ, migrator, use_container, path, resCont>>
    /\ UNCHANGED nonMigVars

\* line 140: the post-migration hook
LocalPost ==
    /\ mig_pc = "post"
    /\ \/ /\ StepRaises(Steps[3])
          /\ UNCHANGED <<attrs, data>>
       \/ /\ migrator.raiseAt # Steps[3]
          /\ calls' = Append(calls, Steps[3])
          /\ attrs' = attrs \o "[post]"
          /\ mig_pc' = "commit_message"
          /\ UNCHANGED <<data, outcome, resLocal>>
    /\ UNCHANGED <<environ, migrator, use_container, path, resCont>>
    /\ UNCHANGED nonMigVars

\* line 142: data["commit_message"] = migrator.commit_message(feedstock_ctx)
LocalCommitMessage ==
    /\ mig_pc = "commit_message"
    /\ \/ /\ StepRaises(Steps[4])
          /\ UNCHANGED <<attrs, data>>
       \/ /\ migrator.raiseAt # Steps[4]
          /\ calls' = Append(calls, Steps[4])
          /\ data' = [data EXCEPT !.commit_message = "commit_message of " \o attrs]
          /\ mig_pc' = "pr_body"
          /\ UNCHANGED <<attrs, outcome, resLocal>>
    /\ UNCHANGED <<environ, migrator, use_container, path, resCont>>
    /\ UNCHANGED nonMigVars

\* line 143: data["pr_body"] = migrator.pr_body(feedstock_ctx)
LocalPrBody ==
    /\ mig_pc = "pr_body"
    /\ \/ /\ StepRaises(Steps[5])
          /\ UNCHANGED <<attrs, data>>
       \/ /\ migrator.raiseAt # Steps[5]
          /\ calls' = Append(calls, Steps[5])
          /\ data' = [data EXCEPT !.pr_body = "pr_body of " \o attrs]
          /\ mig_pc' = "pr_title"
          /\ UNCHANGED <<attrs, outcome, resLocal>>
    /\ UNCHANGED <<environ, migrator, use_container, path, resCont>>
    /\ UNCHANGED nonMigVars

\* lines 144-146: data["pr_title"] = migrator.pr_title(feedstock_ctx); return data
LocalPrTitle ==
    /\ mig_pc = "pr_title"
    /\ \/ /\ StepRaises(Steps[6])
          /\ UNCHANGED <<attrs, data>>
       \/ /\ migrator.raiseAt # Steps[6]
          /\ calls' = Append(calls, Steps[6])
          /\ data' = [data EXCEPT !.pr_title = "pr_title of " \o attrs]
          /\ mig_pc' = "done"
          /\ outcome' = "returned"
          /\ resLocal' = [outcome |-> "returned", data |-> data']
          /\ UNCHANGED attrs
    /\ UNCHANGED <<environ, migrator, use_container, path, resCont>>
    /\ UNCHANGED nonMigVars

MigNext ==
    \/ RunMigration
    \/ RunMigrationContainerized
    \/ LocalPre
    \/ LocalMigrate
    \/ LocalPost
    \/ LocalCommitMessage
    \/ LocalPrBody
    \/ LocalPrTitle


(***************************************************************************)
(* Feedstock parser: feedstock_parser.py                                   *)
(*                                                                         *)
(* A parsed recipe is a function from its top-level keys to tagged values: *)
(* S(x) a scalar, L(x) a list, M(x) a mapping, NoneV the value None.       *)
(* Entries of requirement lists are strings, PyNone standing for None;     *)
(* entries of "outputs" and "source" lists are mappings.                   *)
(***************************************************************************)

S(x) == [kind |-> "str", s |-> x]
L(x) == [kind |-> "list", l |-> x]
M(x) == [kind |-> "map", m |-> x]
NoneV == [kind |-> "none"]
PyNone == "<None>"

\* the empty dict
EmptyMap == [k \in {} |-> NoneV]

\* d.get(k, {}) or {} for a mapping-valued key: the mapping, or {} when the
\* key is absent or its value is falsy
GetMap(d, k) ==
    IF k \in DOMAIN d /\ d[k].kind = "map" THEN d[k].m ELSE EmptyMap

Range(f) == {f[i] : i \in DOMAIN f}

\* Python truthiness of a tagged value
TruthyV(v) ==
    CASE v.kind = "str" -> v.s # ""
      [] v.kind = "list" -> v.l # <<>>
      [] v.kind = "map" -> DOMAIN v.m # {}
      [] OTHER -> FALSE

\* ---- strings ----------------------------------------------------------

\* the characters of the modelled strings in code-point order
Alphabet == " -.0123456789<=>ABCDEFGHIJKLMNOPQRSTUVWXYZ[_abcdefghijklmnopqrstuvwxyz"

RECURSIVE IndexIn(_, _, _)
IndexIn(c, str, i) ==
    IF i > Len(str) THEN 0
    ELSE IF SubSeq(str, i, i) = c THEN i
    ELSE IndexIn(c, str, i + 1)

\* ord(c), up to an order-preserving renumbering
Ord(c) == IndexIn(c, Alphabet, 1)

RECURSIVE StrLess(_, _)
\* a < b for Python strings
StrLess(a, b) ==
    IF Len(b) = 0 THEN FALSE
    ELSE IF Len(a) = 0 THEN TRUE
    ELSE IF Head(a) = Head(b) THEN StrLess(Tail(a), Tail(b))
    ELSE Ord(Head(a)) < Ord(Head(b))

\* s.endswith(suffix)
EndsWith(str, suffix) ==
    /\ Len(str) >= Len(suffix)
    /\ SubSeq(str, Len(str) - Len(suffix) + 1, Len(str)) = suffix

RECURSIVE RemoveAll(_, _)
\* s.replace(pat, "")
RemoveAll(str, pat) ==
    IF Len(str) < Len(pat) THEN str
    ELSE IF SubSeq(str, 1, Len(pat)) = pat
         THEN RemoveAll(SubSeq(str, Len(pat) + 1, Len(str)), pat)
         ELSE Head(str) \o RemoveAll(Tail(str), pat)

RECURSIVE SplitAcc(_, _, _)
SplitAcc(str, sep, cur) ==
    IF Len(str) = 0 THEN <<cur>>
    ELSE IF Head(str) = sep THEN <<cur>> \o SplitAcc(Tail(str), sep, "")
    ELSE SplitAcc(Tail(str), sep, cur \o Head(str))

\* s.split(sep) for a one-character separator
Split(str, sep) == SplitAcc(str, sep, "")

RECURSIVE Join(_, _)
\* sep.join(parts)
Join(parts, sep) ==
    IF Len(parts) = 0 THEN ""
    ELSE IF Len(parts) = 1 THEN parts[1]
    ELSE parts[1] \o sep \o Join(Tail(parts), sep)

UpperCase == "ABCDEFGHIJKLMNOPQRSTUVWXYZ"
LowerCase == "abcdefghijklmnopqrstuvwxyz"

RECURSIVE Lower(_)
\* s.lower()
Lower(str) ==
    IF Len(str) = 0 THEN ""
    ELSE LET i == IndexIn(Head(str), UpperCase, 1)
         IN (IF i = 0 THEN Head(str) ELSE SubSeq(LowerCase, i, i))
            \o Lower(Tail(str))

\* PIN_SEP_PAT = re.compile(r" |>|<|=|\[")
PIN_SEP_PAT == {" ", ">", "<", "=", "["}

RECURSIVE SplitFirst(_)
\* PIN_SEP_PAT.split(x)[0]
SplitFirst(str) ==
    IF Len(str) = 0 THEN ""
    ELSE IF Head(str) \in PIN_SEP_PAT THEN ""
    ELSE Head(str) \o SplitFirst(Tail(str))

\* PIN_SEP_PAT.split(x)[0].lower()
StripPin(x) == Lower(SplitFirst(x))


\* ---- the chain of mappings (xonsh.lib.collections, imported at line 18) ----

\* ChainDBDefault: the marker ChainDB.__getitem__ uses for "key not in this map"
ChainDBDefault == [kind |-> "default"]

RECURSIVE ConcatAll(_)
\* list(itertools.chain(*seqs))
ConcatAll(seqs) ==
    IF Len(seqs) = 0 THEN <<>> ELSE Head(seqs) \o ConcatAll(Tail(seqs))

RECURSIVE ChainDB(_)
\* _convert_to_dict(ChainDB(*maps)), as xonsh.lib.collections implements it
\* (the import of line 18).  ChainDB.__getitem__(key) collects
\* mapping.get(key, ChainDBDefault) from every map, in order, and
\*   - if all results are mappings, chains them (converted recursively);
\*   - else if all results are lists or ChainDBDefault, concatenates the lists;
\*   - else returns the last result that is not ChainDBDefault.
ChainDB(maps) ==
    LET n == Len(maps)
        keys == UNION {DOMAIN maps[i] : i \in 1..n}
        results(k) == [i \in 1..n |->
                         IF k \in DOMAIN maps[i] THEN maps[i][k] ELSE ChainDBDefault]
        get(k) ==
            LET res == results(k)
            IN  IF \A i \in 1..n : res[i].kind = "map"
                THEN M(ChainDB([i \in 1..n |-> res[i].m]))
                ELSE IF \A i \in 1..n : res[i].kind \in {"list", "default"}
                THEN L(ConcatAll([i \in 1..n |->
                          IF res[i].kind = "list" THEN res[i].l ELSE <<>>]))
                ELSE res[CHOOSE i \in 1..n :
                            /\ res[i].kind # "default"
                            /\ \A j \in (i + 1)..n : res[j].kind = "default"]
    IN  [k \in keys |-> get(k)]

\* bool(ChainDB(*maps)): ChainMap.__bool__ is any(self.maps)
ChainDBBool(maps) == \E i \in 1..Len(maps) : DOMAIN maps[i] # {}

\* ---- _clean_req_nones ---------------------------------------------------

\* [v for v in val if v is not None]
DropNones(seq) == SelectSeq(seq, LAMBDA v : v # PyNone)

\* _clean_req_nones(reqs) for reqs a mapping: each of build/host/run that is
\* present becomes a list without None; a bare list has no such section and
\* is returned unchanged; None is not a container, `section in reqs` raises
CleanReqNones(reqs) ==
    IF reqs.kind = "none" THEN [kind |-> "error", e |-> "TypeError"]
    ELSE IF reqs.kind # "map" THEN reqs
    ELSE M([k \in DOMAIN reqs.m |->
              IF k \in {"build", "host", "run"}
              THEN (IF reqs.m[k].kind = "none" THEN L(<<>>)
                    ELSE IF reqs.m[k].kind = "str" THEN L(<<reqs.m[k].s>>)
                    ELSE L(DropNones(reqs.m[k].l)))
              ELSE reqs.m[k]])

\* lines 281-292 applied to one render: clean the top-level requirements and
\* those of every output; "error" when a step of it raises
CleanRender(yml) ==
    LET top == IF "requirements" \in DOMAIN yml
               THEN CleanReqNones(yml["requirements"]) ELSE NoneV
        cleanOut(o) ==
            IF "requirements" \in DOMAIN o
            THEN [o EXCEPT !["requirements"] = CleanReqNones(o["requirements"])]
            ELSE o
        outErr(o) == /\ "requirements" \in DOMAIN o
                     /\ CleanReqNones(o["requirements"]).kind = "error"
        yml1 == IF "requirements" \in DOMAIN yml
                THEN [yml EXCEPT !["requirements"] = top] ELSE yml
    IN  IF top.kind = "error" THEN [err |-> "TypeError", yml |-> yml]
        ELSE IF "outputs" \notin DOMAIN yml THEN [err |-> "", yml |-> yml1]
        ELSE IF yml["outputs"].kind # "list"
             THEN [err |-> "TypeError", yml |-> yml1]
        ELSE IF \E i \in 1..Len(yml["outputs"].l) : outErr(yml["outputs"].l[i])
             THEN [err |-> "TypeError", yml |-> yml1]
        ELSE [err |-> "",
              yml |-> [yml1 EXCEPT !["outputs"] =
                         L([i \in 1..Len(yml["outputs"].l) |->
                              cleanOut(yml["outputs"].l[i])])]]

\* ---- _extract_requirements ----------------------------------------------

\* list(as_iterable(d.get(k, []) or [])): the items of a list, a non-empty
\* str as its only item, nothing for None, "" or a missing key
ItemsOf(d, k) ==
    IF k \notin DOMAIN d THEN {}
    ELSE CASE d[k].kind = "list" -> Range(d[k].l)
           [] d[k].kind = "str" -> (IF d[k].s = "" THEN {} ELSE {d[k].s})
           [] OTHER -> {}

\* what set.update(test.get(k, []) or []) adds: the items of a list, the
\* characters of a str, nothing for None or a missing key
TestItems(test, k) ==
    IF k \notin DOMAIN test THEN {}
    ELSE CASE test[k].kind = "list" -> Range(test[k].l)
           [] test[k].kind = "str" ->
                {SubSeq(test[k].s, i, i) : i \in 1..Len(test[k].s)}
           [] OTHER -> {}

\* the blocks _extract_requirements walks through (lines 111-117)
Metas(meta_yaml, outputs_to_keep) ==
    LET outs == IF "outputs" \in DOMAIN meta_yaml /\ meta_yaml["outputs"].kind = "list"
                THEN meta_yaml["outputs"].l ELSE <<>>
    IN  IF outputs_to_keep # {}
        THEN SelectSeq(outs, LAMBDA o :
                 "name" \in DOMAIN o /\ o["name"].kind = "str"
                 /\ o["name"].s \in outputs_to_keep)
        ELSE <<meta_yaml>> \o outs

\* isinstance(req, list) for req = block.get("requirements", {}) or {}
IsLegacyBlock(block) ==
    /\ "requirements" \in DOMAIN block
    /\ block["requirements"].kind = "list"
    /\ block["requirements"].l # <<>>

\* what one block adds to requirements_dict[section] (lines 120-130)
BlockItems(block, section) ==
    IF IsLegacyBlock(block)
    THEN (IF section = "run" THEN Range(block["requirements"].l) ELSE {})
    ELSE IF section = "test"
    THEN TestItems(GetMap(block, "test"), "requirements")
         \cup TestItems(GetMap(block, "test"), "requires")
    ELSE ItemsOf(GetMap(block, "requirements"), section)

\* lines 131-133 for one block; a legacy block never gets there (continue)
BlockStrong(block) ==
    /\ ~IsLegacyBlock(block)
    /\ LET build == GetMap(block, "build")
       IN  /\ "run_exports" \in DOMAIN build
           /\ build["run_exports"].kind = "map"
           /\ "strong" \in DOMAIN build["run_exports"].m
           /\ TruthyV(build["run_exports"].m["strong"])

\* a requirements_dict created with all four sections
TouchedSectionsAll(metas) == {"build", "host", "run", "test"}

\* the sections requirements_dict holds: a defaultdict has the keys touched
TouchedSections(metas) ==
    (IF \E i \in 1..Len(metas) : ~IsLegacyBlock(metas[i])
        THEN {"build", "host", "run", "test"} ELSE {})
    \cup (IF \E i \in 1..Len(metas) : IsLegacyBlock(metas[i]) THEN {"run"} ELSE {})

\* a filter that keeps every entry
KeepAll(items) == items

\* line 135: {v for v in requirements_dict[k] if v} drops None and ""
KeepTruthy(items) == {v \in items : v \notin {PyNone, ""}}

\* requirements_dict before the conversion to a plain dict: for each section
\* touched, the entries gathered from the blocks and filtered by line 135
RequirementsDict(metas) ==
    [k \in TouchedSections(metas) |->
        KeepTruthy(UNION {BlockItems(metas[i], k) : i \in 1..Len(metas)})]

\* the exception _extract_requirements ends in, "" if none: "outputs: None"
\* breaks the list concatenation of line 117, "test: None" the test.get of
\* line 129, and a None entry that reached line 137 would break
\* PIN_SEP_PAT.split
ExtractError(meta_yaml, outputs_to_keep) ==
    IF outputs_to_keep = {} /\ "outputs" \in DOMAIN meta_yaml
       /\ meta_yaml["outputs"].kind # "list"
    THEN "TypeError"
    ELSE LET metas == Metas(meta_yaml, outputs_to_keep)
             rd == RequirementsDict(metas)
         IN  IF \E i \in 1..Len(metas) :
                    /\ ~IsLegacyBlock(metas[i])
                    /\ "test" \in DOMAIN metas[i]
                    /\ metas[i]["test"].kind # "map"
             THEN "AttributeError"
             ELSE IF \E k \in DOMAIN rd : PyNone \in rd[k]
             THEN "TypeError"
             ELSE ""

\* _extract_requirements: (requirements_dict, req_no_pins, strong_exports)
ExtractRequirements(meta_yaml, outputs_to_keep) ==
    LET metas == Metas(meta_yaml, outputs_to_keep)
        rd == RequirementsDict(metas)
    IN  [requirements_dict |-> rd,
         req_no_pins |-> [k \in DOMAIN rd |-> {StripPin(x) : x \in rd[k]}],
         strong_exports |-> \E i \in 1..Len(metas) : BlockStrong(metas[i])]

\* ---- _parse_requirements / _get_requirements ----------------------------

\* _parse_requirements(req) with build=host=run=True
ParseRequirements(block) ==
    LET reqlist ==
            IF IsLegacyBlock(block) THEN Range(block["requirements"].l)
            ELSE UNION {ItemsOf(GetMap(block, "requirements"), sec) :
                           sec \in {"build", "host", "run"}}
    IN  {StripPin(x) : x \in {v \in reqlist : v # PyNone}}

\* _get_requirements(yaml_dict, outputs_to_keep=[]): the root and every output
GetRequirements(meta_yaml) ==
    LET outs == IF "outputs" \in DOMAIN meta_yaml /\ meta_yaml["outputs"].kind = "list"
                THEN meta_yaml["outputs"].l ELSE <<>>
    IN  ParseRequirements(meta_yaml)
        \cup UNION {ParseRequirements(outs[i]) : i \in 1..Len(outs)}


\* ---- variant discovery (lines 245-262) -----------------------------------

RECURSIVE SortStrings(_)
\* sorted(set of strings)
SortStrings(set) ==
    IF set = {} THEN <<>>
    ELSE LET m == CHOOSE x \in set : \A y \in set \ {x} : StrLess(x, y)
         IN  <<m>> \o SortStrings(set \ {m})

\* line 253: the arch literals recognised in the second token
ArchLiterals == {"64", "aarch64", "ppc64le", "arm64"}

\* line 258: the suffixes stripped from the platform token, in loop order
PlatSuffixes == <<"64", "aarch64", "ppc64le", "arm64", "32">>

RECURSIVE StripPlatSuffix(_, _)
\* lines 258-261: strip the first suffix of the list that plat ends with
StripPlatSuffix(plat, i) ==
    IF i > Len(PlatSuffixes) THEN plat
    ELSE IF EndsWith(plat, PlatSuffixes[i])
         THEN SubSeq(plat, 1, Len(plat) - Len(PlatSuffixes[i]))
         ELSE StripPlatSuffix(plat, i + 1)

\* lines 247-262: the (plat, arch) key of one build-config file name
ParseCbcName(cbc_name) ==
    LET cbc_name_parts == Split(RemoveAll(cbc_name, ".yaml"), "_")
        arch == IF Len(cbc_name_parts) = 1 THEN "64"
                ELSE IF cbc_name_parts[2] \in ArchLiterals THEN cbc_name_parts[2]
                ELSE "64"
    IN  <<StripPlatSuffix(cbc_name_parts[1], 1), arch>>

\* tuple comparison k1 < k2 for (plat, arch) keys
KeyLess(k1, k2) ==
    \/ StrLess(k1[1], k2[1])
    \/ k1[1] = k2[1] /\ StrLess(k1[2], k2[2])

RECURSIVE SortIndices(_, _)
\* the indices of keys left in the order of discovery
UnsortedIndices(keys, rest) == [i \in 1..Cardinality(rest) |-> i]

\* the indices of keys in the order sorted() puts them: ascending, ties in
\* their original order
SortIndices(keys, rest) ==
    IF rest = {} THEN <<>>
    ELSE LET m == CHOOSE i \in rest : \A j \in rest \ {i} :
                     \/ KeyLess(keys[i], keys[j])
                     \/ keys[i] = keys[j] /\ i < j
         IN  <<m>> \o SortIndices(keys, rest \ {m})

\* sorted(zip(plat_arch, variant_yamls)) raises TypeError when two entries
\* have equal keys and unequal dicts (dicts have no "<")
SortRaises(keys, ymls) ==
    \E i, j \in 1..Len(keys) : i < j /\ keys[i] = keys[j] /\ ymls[i] # ymls[j]

\* [x for _, x in sorted(zip(plat_arch, variant_yamls))]
SortedVariantYamls(keys, ymls) ==
    LET idx == SortIndices(keys, 1..Len(keys))
    IN  [i \in 1..Len(keys) |-> ymls[idx[i]]]


\* ---- inputs of populate_feedstock_attributes ------------------------------

\* number of distinct recipes the renderer can produce in the model
NumRecipes == 4

\* number of populate_feedstock_attributes calls made on one record
MaxPopulateCalls == 2

\* the renderer raising instead of returning a recipe: the outcome after the
\* recipes
RaiseId == NumRecipes

\* what one call of the renderer can do: return recipe 0..NumRecipes-1 or raise
RenderOutcomes == 0..RaiseId

\* the outcomes used in the configurations that need less variety
SmallOutcomes == {1, 2, RaiseId}

\* the text of the exception the renderer raises
RenderErrorText == "render failed"

\* the parsed recipes parse_meta_yaml returns in the model
RecipeOf(i) ==
    CASE i = 0 -> EmptyMap
      [] i = 1 ->
           [package |-> M([name |-> S("pkg"), version |-> S("1.0")]),
            requirements |-> M([build |-> L(<<"Cmake >=3.0", PyNone>>),
                                host |-> L(<<"python">>),
                                run |-> L(<<"python", "numpy>=1.20">>)]),
            source |-> M([url |-> S("https://a/pkg-1.0.tar.gz"),
                          sha256 |-> S("aa")]),
            outputs |-> L(<<[name |-> S("pkg-doc")]>>),
            about |-> S("home"),
            schema_version |-> S("1")]
      [] i = 2 ->
           [package |-> M([name |-> S("pkg")]),
            requirements |-> M([host |-> NoneV,
                                run |-> L(<<"NumPy [win]">>)]),
            build |-> M([number |-> S("0"),
                         run_exports |-> M([strong |-> L(<<"pkg">>)])]),
            outputs |-> L(<<[name |-> S("pkg-lib"),
                             requirements |-> L(<<"libfoo 1.*">>),
                             build |-> M([run_exports |->
                                            M([strong |-> L(<<"pkg-lib">>)])])],
                            [name |-> S("pkg-py"),
                             requirements |-> M([run |-> L(<<"python">>)]),
                             test |-> M([requires |-> L(<<"pytest">>)])]>>),
            source |-> L(<<[url |-> S("https://b/pkg-2.0.zip"), md5 |-> S("bb")],
                           [sha256 |-> S("cc")]>>),
            schema_version |-> S("2")]
      [] i = 3 ->
           [requirements |-> L(<<"zlib", "Zlib <2">>),
            build |-> M([run_exports |-> M([strong |-> L(<<"zlib">>)])]),
            test |-> M([requirements |-> L(<<"pytest >=6">>)]),
            about |-> S("legacy")]
      [] OTHER ->
           [package |-> M([name |-> S("other"), version |-> S("0.1")]),
            outputs |-> L(<<[name |-> S("other-dev")]>>),
            schema_version |-> S("3")]

\* the parsed conda-forge.yml: yaml.safe_load(conda_forge_yaml)
CfConfig(provider) ==
    IF provider = {} THEN [bot |-> {"automerge"}]
    ELSE [bot |-> {"automerge"}, provider |-> provider]

\* sub_graph["conda-forge.yml"].get("provider", {})
ProviderOf(cfg) == IF "provider" \in DOMAIN cfg THEN cfg["provider"] ELSE {}

\* the orders in which a set of at most two strings can be iterated
IterationOrders(set) ==
    {sq \in UNION {[1..n -> set] : n \in {Cardinality(set)}} :
        \A i, j \in DOMAIN sq : i # j => sq[i] # sq[j]}

\* the record of a feedstock never parsed before
EmptyRecord == [k \in {} |-> ""]

\* the record an earlier run left for a feedstock then built for linux_ppc64le
StaleRecord ==
    [feedstock_name |-> "pkg",
     parsing_error |-> "False",
     branch |-> "main",
     raw_meta_yaml |-> "old meta.yaml text",
     platforms |-> <<"linux_ppc64le">>,
     meta_yaml |-> RecipeOf(1),
     linux_ppc64le_meta_yaml |-> RecipeOf(1),
     linux_ppc64le_requirements |-> [run |-> {"old"}],
     total_requirements |-> [run |-> {"old >=1"}],
     requirements |-> [run |-> {"old"}],
     strong_exports |-> FALSE,
     outputs_names |-> {"pkg"},
     req |-> {"old"},
     name |-> S("pkg"),
     version |-> S("0.9"),
     url |-> "https://old/pkg-0.9.tar.gz",
     hash_type |-> "sha1"]
    @@ ("conda-forge.yml" :> CfConfig({"linux_ppc64le"}))

\* the callers of the model: a first parse, and a re-parse of a stale record
\* that also asks to mark the feedstock as not archived
Callers == {[prior |-> EmptyRecord, mark_not_archived |-> FALSE],
            [prior |-> StaleRecord, mark_not_archived |-> TRUE]}

\* the feedstock configurations of the model: the files of .ci_support
\* (none when feedstock_dir is None or has no such file) and the provider
\* keys of conda-forge.yml
Feedstocks ==
    {[ci |-> {}, provider |-> {}, outs |-> RenderOutcomes],
     [ci |-> {}, provider |-> {"win"}, outs |-> {1, 2}],
     [ci |-> {}, provider |-> {"linux_64"}, outs |-> SmallOutcomes],
     [ci |-> {}, provider |-> {"linux_aarch64", "linux_ppc64le"}, outs |-> {1, 2}],
     [ci |-> {"linux_64_.yaml", "osx_64_.yaml"}, provider |-> {},
      outs |-> SmallOutcomes],
     [ci |-> {"linux64.yaml", "linux_64_py38.yaml", "linux_py39.yaml"},
      provider |-> {"linux_aarch64"}, outs |-> RenderOutcomes],
     [ci |-> {"linux_aarch64_.yaml", "linux_py39.yaml"}, provider |-> {},
      outs |-> RenderOutcomes]}

\* a default list that lacks the linux variant
DefaultPlatArchMutant == <<<<"win", "64">>, <<"osx", "64">>>>

\* the default variants of line 311
DefaultPlatArch == <<<<"win", "64">>, <<"osx", "64">>, <<"linux", "64">>>>


\* ---- populate_feedstock_attributes: the steps after rendering ------------

\* d[k] = v on a dict
Put(d, k, v) == [x \in DOMAIN d \cup {k} |-> IF x = k THEN v ELSE d[x]]

\* del d[k] for every k of keys
Del(d, keys) == [x \in DOMAIN d \ keys |-> d[x]]

\* no key is stripped (mutant of the strip of lines 214-216)
StaleKeysNone(d) == {}

\* a strip that removes only the key "req"
StaleKeysReqOnly(d) == {k \in DOMAIN d : k = "req"}

\* lines 214-216: the keys of the old record that are stripped
StaleKeys(d) ==
    {key \in DOMAIN d :
        \/ EndsWith(key, "meta_yaml")
        \/ EndsWith(key, "requirements")
        \/ key = "req"}

\* "_".join(k)
PlatArchName(k) == Join(k, "_")

\* BOOTSTRAP_MAPPINGS = {} (line 41): BOOTSTRAP_MAPPINGS.get(name, None) is
\* None for every name, which _extract_requirements treats as "keep all"
OutputsToKeep(name) == {}

\* the message of line 323 (without the traceback text that follows it)
RenderErrorMessage(e) == "make_graph: render error " \o e

\* the message of line 334
CouldNotParse == "make_graph: Could not parse"

\* the message of line 210
ResponseError == "make_graph: 404"

\* hashlib.algorithms_available (the names that occur as recipe source keys)
HashAlgorithms == {"md5", "sha1", "sha224", "sha256", "sha384", "sha512"}

RECURSIVE PerVariant(_, _, _, _)
\* lines 340-346: store each variant's recipe and its pin-stripped
\* requirements, in plat_arch order; st = [sg, w, err]
PerVariant(st, keys, ymls, i) ==
    IF i > Len(keys) \/ st.err # "" THEN st
    ELSE LET nm == PlatArchName(keys[i])
             sgA == Put(st.sg, nm \o "_meta_yaml", ymls[i])
             e == ExtractError(ymls[i], OutputsToKeep("pkg"))
         IN  IF e # ""
             THEN [sg |-> sgA, w |-> st.w \cup {nm \o "_meta_yaml"}, err |-> e]
             ELSE PerVariant(
                    [sg |-> Put(sgA, nm \o "_requirements",
                                ExtractRequirements(ymls[i],
                                    OutputsToKeep("pkg")).req_no_pins),
                     w |-> st.w \cup {nm \o "_meta_yaml", nm \o "_requirements"},
                     err |-> ""],
                    keys, ymls, i + 1)

\* meta_yaml["package"]["name"]: [err, v]
PackageName(meta) ==
    IF "package" \notin DOMAIN meta THEN [err |-> "KeyError: 'package'", v |-> ""]
    ELSE IF meta["package"].kind # "map"
         THEN [err |-> "TypeError", v |-> ""]
    ELSE IF "name" \notin DOMAIN meta["package"].m
         THEN [err |-> "KeyError: 'name'", v |-> ""]
    ELSE [err |-> "",
          v |-> IF meta["package"].m["name"].kind = "str"
                THEN meta["package"].m["name"].s ELSE PyNone]

\* d.get("name", "") of an output
OutputName(d) ==
    IF "name" \in DOMAIN d
    THEN (IF d["name"].kind = "str" THEN d["name"].s ELSE PyNone)
    ELSE ""

\* lines 358-371: [err, v]
OutputsNames(meta) ==
    IF "outputs" \in DOMAIN meta
    THEN LET outs == IF meta["outputs"].kind = "list" THEN meta["outputs"].l ELSE <<>>
             names == {OutputName(outs[i]) : i \in 1..Len(outs)}
             reqs == IF "requirements" \in DOMAIN meta
                     THEN meta["requirements"] ELSE M(EmptyMap)
             hasRun == CASE reqs.kind = "map" -> "run" \in DOMAIN reqs.m
                         [] reqs.kind = "list" -> "run" \in Range(reqs.l)
                         [] reqs.kind = "str" -> FALSE
                         [] OTHER -> FALSE
         IN  IF meta["outputs"].kind # "list"
             THEN [err |-> "TypeError", v |-> {}]
             ELSE IF reqs.kind = "none" THEN [err |-> "TypeError", v |-> {}]
             ELSE IF hasRun
             THEN [err |-> PackageName(meta).err,
                   v |-> names \cup {PackageName(meta).v}]
             ELSE [err |-> "", v |-> names]
    ELSE [err |-> PackageName(meta).err, v |-> {PackageName(meta).v}]

\* lines 382-386: set name and version when the package section has them
SetNameVersion(sg, meta) ==
    LET pkg == GetMap(meta, "package")
        sg1 == IF "name" \in DOMAIN pkg THEN Put(sg, "name", pkg["name"]) ELSE sg
    IN  IF "version" \in DOMAIN pkg THEN Put(sg1, "version", pkg["version"]) ELSE sg1

\* lines 392-394: the list of source entries
SourceEntries(meta) ==
    IF "source" \notin DOMAIN meta THEN <<>>
    ELSE IF meta["source"].kind = "map" THEN <<meta["source"].m>>
    ELSE IF meta["source"].kind = "list" THEN meta["source"].l
    ELSE <<>>

\* s.get("url") of a source entry
UrlOf(src) ==
    IF "url" \in DOMAIN src /\ src["url"].kind = "str" THEN src["url"].s ELSE PyNone

RECURSIVE SetUrl(_, _, _)
\* lines 396-398: sub_graph["url"] is assigned while it is absent or falsy
SetUrl(sg, source, i) ==
    IF i > Len(source) THEN sg
    ELSE IF "url" \notin DOMAIN sg \/ sg["url"] \in {PyNone, ""}
         THEN SetUrl(Put(sg, "url", UrlOf(source[i])), source, i + 1)
         ELSE SetUrl(sg, source, i + 1)

\* line 401: the greatest hash algorithm name among the source keys
HashType(source) ==
    LET ks == UNION {DOMAIN source[i] : i \in 1..Len(source)} \cap HashAlgorithms
    IN  IF ks = {} THEN PyNone
        ELSE CHOOSE x \in ks : \A y \in ks \ {x} : StrLess(y, x)

\* a platforms list that extends the one already in the record
PlatformsExtended(sg, keys) ==
    (IF "platforms" \in DOMAIN sg THEN sg["platforms"] ELSE <<>>)
    \o [i \in 1..Len(keys) |-> PlatArchName(keys[i])]

\* a platforms list written in the sorted order of the merge
PlatformsSorted(sg, keys) ==
    LET idx == SortIndices(keys, 1..Len(keys))
    IN  [i \in 1..Len(keys) |-> PlatArchName(keys[idx[i]])]

\* line 327: ["_".join(k) for k in plat_arch]
Platforms(sg, keys) == [i \in 1..Len(keys) |-> PlatArchName(keys[i])]

\* lines 326-405: everything after the renders.  The result is the record,
\* the keys written, how the call ends and, when it raises, the exception.
Finish(sg0, keys, ymls) ==
    LET sg1 == Put(sg0, "platforms", Platforms(sg0, keys))
        w1 == {"platforms"}
        sorted == SortedVariantYamls(keys, ymls)
        meta == ChainDB(sorted)
        sg2 == Put(sg1, "meta_yaml", meta)
        pv == PerVariant([sg |-> sg2, w |-> w1 \cup {"meta_yaml"}, err |-> ""],
                         keys, ymls, 1)
        te == ExtractError(meta, OutputsToKeep("pkg"))
        tot == ExtractRequirements(meta, OutputsToKeep("pkg"))
        sg3 == Put(Put(Put(pv.sg, "total_requirements", tot.requirements_dict),
                       "requirements", tot.req_no_pins),
                   "strong_exports", tot.strong_exports)
        w3 == pv.w \cup {"total_requirements", "requirements", "strong_exports"}
        on == OutputsNames(meta)
        sg4 == Put(Put(sg3, "outputs_names", on.v), "req", GetRequirements(meta))
        sg5 == Del(SetNameVersion(sg4, meta), {"url", "hash_type"})
        w5 == w3 \cup {"outputs_names", "req"}
                 \cup (DOMAIN GetMap(meta, "package") \cap {"name", "version"})
        src == SourceEntries(meta)
        sg6 == SetUrl(sg5, src, 1)
        sg7 == IF HashType(src) # PyNone
               THEN Put(sg6, "hash_type", HashType(src)) ELSE sg6
        w7 == w5 \cup (IF src # <<>> THEN {"url"} ELSE {})
                 \cup (IF HashType(src) # PyNone THEN {"hash_type"} ELSE {})
    IN  IF SortRaises(keys, ymls)
        THEN [sg |-> sg1, w |-> w1, outcome |-> "raised", exc |-> "TypeError"]
        ELSE IF ~ChainDBBool(sorted)
        THEN [sg |-> Put(sg1, "parsing_error", CouldNotParse),
              w |-> w1 \cup {"parsing_error"}, outcome |-> "returned", exc |-> ""]
        ELSE IF pv.err # ""
        THEN [sg |-> pv.sg, w |-> pv.w, outcome |-> "raised", exc |-> pv.err]
        ELSE IF te # ""
        THEN [sg |-> pv.sg, w |-> pv.w, outcome |-> "raised", exc |-> te]
        ELSE IF on.err # ""
        THEN [sg |-> sg3, w |-> w3, outcome |-> "raised", exc |-> on.err]
        ELSE IF "source" \in DOMAIN meta /\ meta["source"].kind \notin {"map", "list"}
        THEN [sg |-> sg5, w |-> w5, outcome |-> "raised", exc |-> "TypeError"]
        ELSE [sg |-> sg7, w |-> w7, outcome |-> "returned", exc |-> ""]


\* ---- populate_feedstock_attributes as a state machine --------------------

\* the provider keys the default path reads from sub_graph["conda-forge.yml"]
\* for the given arguments: those of the text when it is a str, else those
\* left in the prior record
EffectiveProvider(fs, cf, prior) ==
    IF cf = "str" THEN fs.provider
    ELSE IF "conda-forge.yml" \in DOMAIN prior
         THEN ProviderOf(prior["conda-forge.yml"])
         ELSE {}

\* the arguments the renderer can be called with: the build-config files, or
\* the platform_arch names of the default path
RenderArgs(fs, prov) ==
    IF fs.ci # {} THEN fs.ci
    ELSE {PlatArchName(DefaultPlatArch[i]) : i \in 1..Len(DefaultPlatArch)}
         \cup {k \in prov : Len(Split(k, "_")) > 1}

\* the feedstock_dir argument: None, or the path of a checkout when the
\* feedstock has build-config files
FeedstockDirOf(fs) == IF fs.ci = {} THEN "None" ELSE "path"

PopInit ==
    /\ \E c \in Callers, fs \in Feedstocks,
          my \in {"text", "Response"}, cf \in {"str", "empty", "notstr"} :
          /\ (my # "text" \/ cf # "str") => (fs.ci = {} /\ fs.provider = {"win"})
          /\ LET prov == EffectiveProvider(fs, cf, c.prior)
                 args == RenderArgs(fs, prov)
             IN  \E r \in [args -> fs.outs],
                    ord \in IterationOrders(prov) :
                    /\ inp = [prior |-> c.prior,
                              meta_yaml |-> my, conda_forge_yaml |-> cf,
                              ci |-> fs.ci, provider |-> fs.provider,
                              set_order |-> ord, renderer |-> r,
                              mark_not_archived |-> c.mark_not_archived,
                              feedstock_dir |-> FeedstockDirOf(fs)]
          /\ sub_graph = c.prior
    /\ pop_pc = "idle"
    /\ plat_arch = <<>>
    /\ variant_yamls = <<>>
    /\ todo = <<>>
    /\ render_log = <<>>
    /\ written = {}
    /\ pop_outcome = "none"
    /\ exc = ""
    /\ ncalls = 0
    /\ prev = EmptyRecord

\* an exception inside the try block that is re-raised without being recorded
FailInTryMutant(e) ==
    /\ sub_graph' = sub_graph
    /\ written' = written
    /\ pop_outcome' = "raised"
    /\ exc' = e
    /\ pop_pc' = "done"

\* an exception inside the try block (lines 319-324): record it and re-raise
FailInTry(e) ==
    /\ sub_graph' = Put(sub_graph, "parsing_error", RenderErrorMessage(e))
    /\ written' = written \cup {"parsing_error"}
    /\ pop_outcome' = "raised"
    /\ exc' = e
    /\ pop_pc' = "done"

\* lines 311-314: the default variants plus the provider keys holding "_",
\* in the iteration order of set(provider)
DefaultVariants(cfg, order) ==
    DefaultPlatArch
    \o [i \in 1..Len(SelectSeq(order, LAMBDA k : Len(Split(k, "_")) > 1)) |->
          Split(SelectSeq(order, LAMBDA k : Len(Split(k, "_")) > 1)[i], "_")]

\* lines 203-243 and 310-314: reset the record, strip the stale keys, store
\* the raw inputs and work out which variants to render
PopulateEnter ==
    /\ pop_pc = "idle" \/ (pop_pc = "done" /\ pop_outcome = "returned")
    /\ ncalls < MaxPopulateCalls
    /\ ncalls' = ncalls + 1
    /\ prev' = IF pop_pc = "done" THEN sub_graph ELSE prev
    /\ render_log' = <<>>
    /\ UNCHANGED inp
    /\ LET sg1 == Put(Put(Put(sub_graph, "feedstock_name", "pkg"),
                          "parsing_error", "False"), "branch", "main")
           sg2 == IF inp.mark_not_archived THEN Put(sg1, "archived", "False") ELSE sg1
           w2 == {"feedstock_name", "parsing_error", "branch"}
                    \cup (IF inp.mark_not_archived THEN {"archived"} ELSE {})
           sg3 == Put(Del(sg2, StaleKeys(sg2)), "raw_meta_yaml", "meta.yaml text")
           sg4 == IF inp.conda_forge_yaml = "str"
                  THEN Put(sg3, "conda-forge.yml", CfConfig(inp.provider)) ELSE sg3
           w4 == w2 \cup {"raw_meta_yaml"}
                    \cup (IF inp.conda_forge_yaml = "str" THEN {"conda-forge.yml"} ELSE {})
       IN  IF inp.meta_yaml = "Response"
           THEN /\ sub_graph' = Put(sg2, "parsing_error", ResponseError)
                /\ written' = w2
                /\ pop_outcome' = "returned"
                /\ pop_pc' = "done"
                /\ UNCHANGED <<plat_arch, variant_yamls, todo, exc>>
           ELSE IF inp.conda_forge_yaml = "empty"
           THEN \* yaml.safe_load("") is None: None.items() raises
                /\ sub_graph' = sg3
                /\ written' = w2 \cup {"raw_meta_yaml"}
                /\ pop_outcome' = "raised"
                /\ exc' = "AttributeError"
                /\ pop_pc' = "done"
                /\ UNCHANGED <<plat_arch, variant_yamls, todo>>
           ELSE IF inp.feedstock_dir = "Response"
           THEN \* lines 226-230: os.path.join(feedstock_dir, ...) rejects a
                \* Response, before the try block is entered
                /\ sub_graph' = sg4
                /\ written' = w4
                /\ pop_outcome' = "raised"
                /\ exc' = "TypeError"
                /\ pop_pc' = "done"
                /\ UNCHANGED <<plat_arch, variant_yamls, todo>>
           ELSE IF inp.ci # {}
           THEN /\ sub_graph' = sg4
                /\ written' = w4
                /\ plat_arch' = <<>>
                /\ variant_yamls' = <<>>
                /\ todo' = SortStrings(inp.ci)
                /\ pop_outcome' = "running"
                /\ pop_pc' = "render_ci"
                /\ UNCHANGED exc
           ELSE IF "conda-forge.yml" \notin DOMAIN sg4
           THEN /\ sub_graph' = Put(sg4, "parsing_error",
                                    RenderErrorMessage("'conda-forge.yml'"))
                /\ written' = w4
                /\ pop_outcome' = "raised"
                /\ exc' = "'conda-forge.yml'"
                /\ pop_pc' = "done"
                /\ UNCHANGED <<plat_arch, variant_yamls, todo>>
           ELSE /\ sub_graph' = sg4
                /\ written' = w4
                /\ plat_arch' = DefaultVariants(sg4["conda-forge.yml"], inp.set_order)
                /\ variant_yamls' = <<>>
                /\ todo' = <<>>
                /\ pop_outcome' = "running"
                /\ pop_pc' = "render_default"
                /\ UNCHANGED exc

\* a call of populate_feedstock_attributes made directly on a record
PopulateBegin ==
    /\ PopulateEnter
    /\ UNCHANGED nonPopVars

\* lines 315-318: one element of the list comprehension of the default path
RenderDefault ==
    /\ pop_pc = "render_default"
    /\ UNCHANGED <<inp, plat_arch, todo, ncalls, prev>>
    /\ LET k == plat_arch[Len(variant_yamls) + 1]
       IN  IF Len(k) # 2
           THEN /\ FailInTry("ValueError")
                /\ UNCHANGED <<variant_yamls, render_log>>
           ELSE /\ render_log' = Append(render_log,
                                         [key |-> k, arg |-> PlatArchName(k)])
                /\ IF inp.renderer[PlatArchName(k)] = RaiseId
                   THEN /\ FailInTry(RenderErrorText)
                        /\ UNCHANGED variant_yamls
                   ELSE /\ variant_yamls' =
                              Append(variant_yamls, RecipeOf(inp.renderer[PlatArchName(k)]))
                        /\ pop_pc' = IF Len(variant_yamls') = Len(plat_arch)
                                     THEN "finish" ELSE "render_default"
                        /\ UNCHANGED <<sub_graph, written, pop_outcome, exc>>
    /\ UNCHANGED nonPopVars

\* the keys of a list in order of first appearance (the keys of final_cfgs)
FirstAppearances(keys) ==
    SelectSeq([i \in 1..Len(keys) |->
                  IF \E j \in 1..(i - 1) : keys[j] = keys[i] THEN <<>> ELSE keys[i]],
              LAMBDA k : k # <<>>)

\* the entries of ymls whose key is k, newest first
GroupMutant(keys, ymls, k) ==
    LET idx == SelectSeq([i \in 1..Len(keys) |-> i], LAMBDA i : keys[i] = k)
    IN  [j \in 1..Len(idx) |-> ymls[idx[Len(idx) + 1 - j]]]

\* the entries of ymls whose key is k, in order (final_cfgs[k])
Group(keys, ymls, k) ==
    LET idx == SelectSeq([i \in 1..Len(keys) |-> i], LAMBDA i : keys[i] = k)
    IN  [j \in 1..Len(idx) |-> ymls[idx[j]]]

\* lines 245-308: one iteration of the loop over the build-config files:
\* parse the file name, render, clean the requirements, collapse the renders
\* that share a (platform, arch) key
RenderCi ==
    /\ pop_pc = "render_ci"
    /\ UNCHANGED <<inp, ncalls, prev>>
    /\ LET cbc_name == Head(todo)
           k == ParseCbcName(cbc_name)
           out == inp.renderer[cbc_name]
           cl == CleanRender(RecipeOf(out))
           pa1 == Append(plat_arch, k)
           vy1 == Append(variant_yamls, cl.yml)
           ks == FirstAppearances(pa1)
       IN  /\ render_log' = Append(render_log, [key |-> k, arg |-> cbc_name])
           /\ IF out = RaiseId
              THEN /\ FailInTry(RenderErrorText)
                   /\ UNCHANGED <<plat_arch, variant_yamls, todo>>
              ELSE IF cl.err # ""
              THEN /\ FailInTry(cl.err)
                   /\ UNCHANGED <<plat_arch, variant_yamls, todo>>
              ELSE /\ plat_arch' = ks
                   /\ variant_yamls' =
                         [i \in 1..Len(ks) |-> ChainDB(Group(pa1, vy1, ks[i]))]
                   /\ todo' = Tail(todo)
                   /\ pop_pc' = IF Tail(todo) = <<>> THEN "finish" ELSE "render_ci"
                   /\ UNCHANGED <<sub_graph, written, pop_outcome, exc>>
    /\ UNCHANGED nonPopVars

\* lines 326-405: merge the variants and fill in the record
PopulateFinish ==
    /\ pop_pc = "finish"
    /\ LET res == Finish(sub_graph, plat_arch, variant_yamls)
       IN  /\ sub_graph' = res.sg
           /\ written' = written \cup res.w
           /\ pop_outcome' = res.outcome
           /\ exc' = res.exc
    /\ pop_pc' = "done"
    /\ UNCHANGED <<inp, plat_arch, variant_yamls, todo, render_log, ncalls, prev>>
    /\ UNCHANGED nonPopVars

PopNext ==
    \/ PopulateBegin
    \/ RenderDefault
    \/ RenderCi
    \/ PopulateFinish

\* the parser is not running
PopIdle ==
    /\ inp = [prior |-> EmptyRecord,
              meta_yaml |-> "text", conda_forge_yaml |-> "str", ci |-> {},
              provider |-> {}, set_order |-> <<>>,
              renderer |-> [a \in {} |-> 0], mark_not_archived |-> FALSE,
              feedstock_dir |-> "None"]
    /\ sub_graph = EmptyRecord
    /\ pop_pc = "off"
    /\ plat_arch = <<>>
    /\ variant_yamls = <<>>
    /\ todo = <<>>
    /\ render_log = <<>>
    /\ written = {}
    /\ pop_outcome = "none"
    /\ exc = ""
    /\ ncalls = 0
    /\ prev = EmptyRecord

\* the dispatcher is not running
MigIdle ==
    /\ environ = "unset"
    /\ migrator = [ret |-> "None", raiseAt |-> "none"]
    /\ mig_pc = "off"
    /\ use_container = "None"
    /\ path = "none"
    /\ calls = <<>>
    /\ attrs = ""
    /\ data = NoData
    /\ outcome = "none"
    /\ resLocal = NoRes
    /\ resCont = NoRes


\* ---- _extract_requirements called on its own ------------------------------

\* a block without the key in question
Absent == EmptyMap

\* the values of a block's "requirements" key
ReqValues ==
    {NoneV, L(<<>>), L(<<"zlib", PyNone, "Zlib <2">>),
     M([host |-> NoneV, run |-> L(<<"NumPy [win]", PyNone>>)]),
     M([build |-> L(<<"Cmake >=3.0", PyNone>>), host |-> L(<<"python">>),
        run |-> L(<<PyNone>>)]),
     M([run |-> S("Python =3.9")])}

\* the values of a block's "test" key; the last is "test:" left empty
TestValues ==
    {M([requires |-> L(<<"pytest", PyNone>>)]),
     M([requirements |-> L(<<"PyTest-Cov >=2">>), requires |-> NoneV]),
     NoneV}

\* the values of a block's "build" key
BuildValues ==
    {NoneV,
     M([run_exports |-> M([strong |-> L(<<"pkg">>)])]),
     M([run_exports |-> M([weak |-> L(<<"pkg">>)])]),
     M([run_exports |-> L(<<"pkg">>)])}

\* the root blocks: every combination of a requirements, a test and a build
\* key, each present or not
RootBlocks ==
    {r @@ t @@ b :
        r \in {Absent} \cup {[requirements |-> v] : v \in ReqValues},
        t \in {Absent} \cup {[test |-> v] : v \in TestValues},
        b \in {Absent} \cup {[build |-> v] : v \in BuildValues}}

\* the outputs named name
OutputBlocks(name) ==
    {[name |-> S(name)] @@ r @@ b :
        r \in {Absent, [requirements |-> L(<<"libfoo 1.*", PyNone>>)],
               [requirements |-> M([run |-> L(<<"LibBar <2", PyNone>>)])]},
        b \in {Absent, [build |-> M([run_exports |-> M([strong |-> L(<<"pkg-lib">>)])])]}}

\* the values of the "outputs" key; the last is "outputs:" left empty
OutputsValues ==
    {L(<<o>>) : o \in OutputBlocks("pkg-lib")}
    \cup {L(<<[name |-> S("pkg-py"), requirements |-> L(<<"python">>)],
              [name |-> S("pkg-lib"), test |-> M([requires |-> L(<<"pytest">>)])]>>),
          NoneV}

\* the outputs_to_keep arguments: None, a name some recipes have, a name none has
KeepValues == {{}, {"pkg-lib"}, {"pkg-none"}}

ExtInit ==
    \E root \in RootBlocks,
       outs \in {Absent} \cup {[outputs |-> v] : v \in OutputsValues},
       keep \in KeepValues :
       ext = [pc |-> "ready", meta_yaml |-> root @@ outs, outputs_to_keep |-> keep,
              outcome |-> "none", exc |-> "", res |-> <<>>]

\* one call of _extract_requirements(meta_yaml, outputs_to_keep)
ExtractCall ==
    /\ ext.pc = "ready"
    /\ LET e == ExtractError(ext.meta_yaml, ext.outputs_to_keep)
       IN  ext' = IF e # ""
                  THEN [ext EXCEPT !.pc = "done", !.outcome = "raised", !.exc = e]
                  ELSE [ext EXCEPT !.pc = "done", !.outcome = "returned",
                                   !.res = ExtractRequirements(ext.meta_yaml,
                                                               ext.outputs_to_keep)]
    /\ UNCHANGED <<migVars, popVars, ld, ct, lf>>

ExtNext == ExtractCall


\* ---- load_feedstock_containerized (lines 466-548) -------------------------

\* the logging levels lines 536-539 look for, in the order of the loop
LogLevels == <<"critical", "error", "warning", "info", "debug">>

RECURSIVE Upper(_)
\* s.upper()
Upper(str) ==
    IF str = "" THEN ""
    ELSE LET i == IndexIn(Head(str), LowerCase, 1)
         IN  (IF i = 0 THEN Head(str) ELSE SubSeq(UpperCase, i, i))
             \o Upper(Tail(str))

RECURSIVE Contains(_, _)
\* pat in s
Contains(str, pat) ==
    /\ Len(str) >= Len(pat)
    /\ \/ SubSeq(str, 1, Len(pat)) = pat
       \/ Contains(Tail(str), pat)

\* line 533: the conda-build warning that is cut out of the captured output
NumpyWarning == "WARNING: No numpy version specified in conda_build_config.yaml."

\* lines 532-534: ret["container_stdout_stderr"].replace(NumpyWarning, "")
Scrub(text) == RemoveAll(text, NumpyWarning)

\* line 537: f"{level.upper()}    conda_forge_tick"
Marker(level) == Upper(level) \o "    conda_forge_tick"

\* the texts of container_stdout_stderr: nothing, markers of one or several
\* levels in any order, the numpy warning alone and next to markers, a
\* marker that only exists once the numpy warning is cut out, and level
\* names that are no markers (lower case, one space)
ContainerLogs ==
    {"",
     "INFO    conda_forge_tick parsing pkg",
     "DEBUG    conda_forge_tick x; ERROR    conda_forge_tick boom",
     "INFO    conda_forge_tick a; WARNING    conda_forge_tick b",
     "ERROR    conda_forge_tick e; CRITICAL    conda_forge_tick c",
     NumpyWarning,
     NumpyWarning \o " DEBUG    conda_forge_tick d " \o NumpyWarning,
     "WARNING    conda_" \o NumpyWarning \o "forge_tick w",
     "error    conda_forge_tick; ERROR conda_forge_tick; building"}

\* the records a container can hand back as data
ContainerData ==
    {[feedstock_name |-> "pkg", parsing_error |-> "False", version |-> "1.0"],
     [feedstock_name |-> "pkg", parsing_error |-> "make_graph: Could not parse"]}

\* output that json.loads rejects
NotJson == [text |-> "Traceback (most recent call last)"]

\* no value was returned
NoReturn == [returned |-> FALSE]

\* what the container process can leave on stdout: a JSON envelope with the
\* captured output and data, an error envelope with or without data, or text
\* that is not JSON
Stdouts ==
    {[container_stdout_stderr |-> lg, data |-> d] :
        lg \in ContainerLogs, d \in ContainerData}
    \cup {e @@ [container_stdout_stderr |-> lg, error |-> "ValueError('boom')"] :
             lg \in ContainerLogs,
             e \in {Absent} \cup {[data |-> d] : d \in ContainerData}}
    \cup {NotJson}

\* the exit codes of the container process
ExitCodes == {0, 1, 137}

\* the sub_graph arguments: without and with the key feedstock_name
ContRecords == {EmptyRecord, [feedstock_name |-> "pkg", branch |-> "main"]}

\* lines 489-499: the task arguments
ContArgs(meta_yaml, conda_forge_yaml, mark_not_archived) ==
    (IF meta_yaml # "None" THEN <<"--meta-yaml", meta_yaml>> ELSE <<>>)
    \o (IF conda_forge_yaml # "None"
          THEN <<"--conda-forge-yaml", conda_forge_yaml>> ELSE <<>>)
    \o (IF mark_not_archived THEN <<"--mark-not-archived">> ELSE <<>>)

\* lines 501-514: the command line after the container run arguments; args
\* is spliced in before and after --log-level
ContCmd(sg, args) ==
    <<"python", "/opt/autotick-bot/docker/run_bot_task.py", "parse-feedstock",
      "--existing-feedstock-node-attrs", sg>>
    \o args \o <<"--log-level", "info">> \o args

RECURSIVE EmitLevelReversed(_, _)
RECURSIVE EmitLevel(_, _)
\* a loop that goes through the levels from the least severe upwards
EmitLevelReversed(text, i) ==
    IF i > Len(LogLevels) THEN "none"
    ELSE IF Contains(text, Marker(LogLevels[Len(LogLevels) + 1 - i]))
         THEN LogLevels[Len(LogLevels) + 1 - i]
    ELSE EmitLevelReversed(text, i + 1)

\* lines 536-539: the level the captured output is re-emitted at, "none" when
\* no marker occurs in it
EmitLevel(text, i) ==
    IF i > Len(LogLevels) THEN "none"
    ELSE IF Contains(text, Marker(LogLevels[i])) THEN LogLevels[i]
    ELSE EmitLevel(text, i + 1)

\* a run of the container whose exit code is not looked at
RunAndParseNoCheck(exit_code, stdout) ==
    IF stdout = NotJson
    THEN [outcome |-> "raised", exc |-> "JSONDecodeError", ret |-> NoReturn,
          logged |-> <<>>]
    ELSE LET text == Scrub(stdout["container_stdout_stderr"])
             lvl == EmitLevel(text, 1)
             logged == IF lvl = "none" THEN <<>> ELSE <<[level |-> lvl, text |-> text]>>
         IN  IF "error" \in DOMAIN stdout
             THEN [outcome |-> "raised", exc |-> "RuntimeError", ret |-> NoReturn,
                   logged |-> logged]
             ELSE [outcome |-> "returned", exc |-> "", ret |-> stdout["data"],
                   logged |-> logged]

\* lines 515-548: subprocess.run(cmd, check=True), loads(res.stdout), the
\* re-emission of the captured output, the error test and the return
RunAndParse(exit_code, stdout) ==
    IF exit_code # 0
    THEN [outcome |-> "raised", exc |-> "CalledProcessError", ret |-> NoReturn,
          logged |-> <<>>]
    ELSE IF stdout = NotJson
    THEN [outcome |-> "raised", exc |-> "JSONDecodeError", ret |-> NoReturn,
          logged |-> <<>>]
    ELSE LET text == Scrub(stdout["container_stdout_stderr"])
             lvl == EmitLevel(text, 1)
             logged == IF lvl = "none" THEN <<>> ELSE <<[level |-> lvl, text |-> text]>>
         IN  IF "error" \in DOMAIN stdout
             THEN [outcome |-> "raised", exc |-> "RuntimeError", ret |-> NoReturn,
                   logged |-> logged]
             ELSE [outcome |-> "returned", exc |-> "", ret |-> stdout["data"],
                   logged |-> logged]

ContInit ==
    \E sg \in ContRecords, my \in {"None", "meta.yaml text"},
       cf \in {"None", "conda-forge.yml text"}, mark \in BOOLEAN,
       code \in ExitCodes, out \in Stdouts :
       ct = [pc |-> "ready", sub_graph |-> sg, meta_yaml |-> my,
             conda_forge_yaml |-> cf, mark_not_archived |-> mark,
             exit_code |-> code, stdout |-> out, cmd |-> <<>>,
             outcome |-> "none", exc |-> "", ret |-> NoReturn, logged |-> <<>>]

\* lines 486-514: add feedstock_name to the record if it is missing, build
\* the command line with the record serialised into it
ContPrepare ==
    /\ ct.pc = "ready"
    /\ LET sg == IF "feedstock_name" \in DOMAIN ct.sub_graph THEN ct.sub_graph
                 ELSE Put(ct.sub_graph, "feedstock_name", "pkg")
       IN  ct' = [ct EXCEPT !.pc = "run", !.sub_graph = sg,
                            !.cmd = ContCmd(sg, ContArgs(ct.meta_yaml,
                                                         ct.conda_forge_yaml,
                                                         ct.mark_not_archived))]
    /\ UNCHANGED <<migVars, popVars, ext, ld, lf>>

\* lines 515-548: run the container and turn its output into the result
ContRun ==
    /\ ct.pc = "run"
    /\ LET r == RunAndParse(ct.exit_code, ct.stdout)
       IN  ct' = [ct EXCEPT !.pc = "done", !.outcome = r.outcome, !.exc = r.exc,
                            !.ret = r.ret, !.logged = r.logged]
    /\ UNCHANGED <<migVars, popVars, ext, ld, lf>>

ContNext ==
    \/ ContPrepare
    \/ ContRun

\* ---- _fetch_static_repo and load_feedstock_local -------------------------

\* what requests.get followed by raise_for_status can do for one branch:
\* answer 200, answer 404 (raise_for_status raises HTTPError), or fail to
\* connect (requests.get itself raises, nothing is assigned to r)
FetchAnswers == {"200", "404", "ConnectionError"}

\* the feedstocks whose archive the model fetches
LoadFeedstocks == {fs \in Feedstocks : fs.outs = SmallOutcomes}

\* the with block is left by an exception without the directory being removed
ExitWithLeak(l, how, e) ==
    [l EXCEPT !.pc = "done", !.outcome = how, !.exc = e,
              !.tmpdir = IF how = "raised" THEN l.tmpdir ELSE "removed",
              !.staged = IF how = "raised" THEN l.staged ELSE {}]

\* line 437: leaving the with block, by return or by exception, runs
\* TemporaryDirectory.__exit__, which removes the directory and what is in it
ExitWith(l, how, e) ==
    [l EXCEPT !.pc = "done", !.outcome = how, !.exc = e,
              !.tmpdir = "removed", !.staged = {}]

LoadInit ==
    /\ \E my \in {"None", "text"}, cf \in {"None", "str"},
          main \in FetchAnswers, master \in FetchAnswers :
          ld = [pc |-> "ready", meta_yaml |-> my, conda_forge_yaml |-> cf,
                main |-> main, master |-> master, requests |-> <<>>,
                r |-> "unbound", found_branch |-> "None",
                feedstock_dir |-> "unset", tmpdir |-> "none", staged |-> {},
                outcome |-> "none", exc |-> ""]
    /\ \E c \in Callers, fs \in LoadFeedstocks :
          LET prov == EffectiveProvider(fs, "str", c.prior)
              args == RenderArgs(fs, prov)
          IN  \E r \in [args -> fs.outs], ord \in IterationOrders(prov) :
                 /\ inp = [prior |-> c.prior,
                           meta_yaml |-> "unset", conda_forge_yaml |-> "unset",
                           ci |-> fs.ci, provider |-> fs.provider,
                           set_order |-> ord, renderer |-> r,
                           mark_not_archived |-> c.mark_not_archived,
                           feedstock_dir |-> "unset"]
                 /\ sub_graph = c.prior
    /\ pop_pc = "off"
    /\ plat_arch = <<>>
    /\ variant_yamls = <<>>
    /\ todo = <<>>
    /\ render_log = <<>>
    /\ written = {}
    /\ pop_outcome = "none"
    /\ exc = ""
    /\ ncalls = 0
    /\ prev = EmptyRecord

\* line 437: tempfile.TemporaryDirectory() creates the directory
LoadEnter ==
    /\ ld.pc = "ready"
    /\ ld' = [ld EXCEPT !.pc = "get_main", !.tmpdir = "exists"]
    /\ UNCHANGED <<migVars, popVars, ext, ct, lf>>

\* lines 146-154 for one branch: request its archive; r is assigned when
\* requests.get returns, found_branch when raise_for_status passes
FetchBranch(l, branch, answer) ==
    [l EXCEPT !.requests = Append(l.requests, branch),
              !.r = IF answer = "ConnectionError" THEN l.r ELSE answer,
              !.found_branch = IF answer = "200" THEN branch ELSE l.found_branch]

\* lines 145-154, first iteration: the archive of main; break when it is there
FetchMain ==
    /\ ld.pc = "get_main"
    /\ ld' = [FetchBranch(ld, "main", ld.main) EXCEPT
                 !.pc = IF ld.main = "200" THEN "status" ELSE "get_master"]
    /\ UNCHANGED <<migVars, popVars, ext, ct, lf>>

\* lines 145-154, second iteration: the archive of master
FetchMaster ==
    /\ ld.pc = "get_master"
    /\ ld' = [FetchBranch(ld, "master", ld.master) EXCEPT !.pc = "status"]
    /\ UNCHANGED <<migVars, popVars, ext, ct, lf>>

\* lines 156-170 and 438: r is unbound when both requests.get calls raised;
\* a status other than 200 returns the Response; else the archive is written
\* to dest and extracted there
FetchResult ==
    /\ ld.pc = "status"
    /\ ld' = IF ld.r = "unbound"
             THEN ExitWith(ld, "raised", "UnboundLocalError")
             ELSE IF ld.r # "200"
             THEN [ld EXCEPT !.pc = "read", !.feedstock_dir = "Response"]
             ELSE [ld EXCEPT !.pc = "read", !.feedstock_dir = "path",
                             !.staged = {"archive", "tree"}]
    /\ UNCHANGED <<migVars, popVars, ext, ct, lf>>

\* lines 440-452: the texts not supplied by the caller are read from the
\* checkout; without a checkout meta_yaml becomes the Response and
\* conda_forge_yaml the class Response, which is not a str
LoadRead ==
    /\ ld.pc = "read"
    /\ inp' = [inp EXCEPT
                 !.meta_yaml = IF ld.meta_yaml = "None"
                                  /\ ld.feedstock_dir = "Response"
                               THEN "Response" ELSE "text",
                 !.conda_forge_yaml = IF ld.conda_forge_yaml = "None"
                                         /\ ld.feedstock_dir = "Response"
                                      THEN "notstr" ELSE "str",
                 !.feedstock_dir = ld.feedstock_dir]
    /\ pop_pc' = "idle"
    /\ ld' = [ld EXCEPT !.pc = "populate"]
    /\ UNCHANGED <<sub_graph, plat_arch, variant_yamls, todo, render_log,
                   written, pop_outcome, exc, ncalls, prev>>
    /\ UNCHANGED <<migVars, ext, ct, lf>>

\* lines 454-461: the call of populate_feedstock_attributes
LoadPopulate ==
    /\ ld.pc = "populate"
    /\ PopulateEnter
    /\ ld' = [ld EXCEPT !.pc = "populating"]
    /\ UNCHANGED <<migVars, ext, ct, lf>>

\* lines 454-463: populate_feedstock_attributes returned (return sub_graph)
\* or raised (the exception leaves load_feedstock_local)
LoadExit ==
    /\ ld.pc = "populating"
    /\ pop_pc = "done"
    /\ ld' = ExitWith(ld, pop_outcome, exc)
    /\ UNCHANGED <<migVars, popVars, ext, ct, lf>>

LoadNext ==
    \/ LoadEnter
    \/ FetchMain
    \/ FetchMaster
    \/ FetchResult
    \/ LoadRead
    \/ LoadPopulate
    \/ RenderDefault
    \/ RenderCi
    \/ PopulateFinish
    \/ LoadExit

\* ---- load_feedstock (lines 551-597) ---------------------------------------

\* the calls of load_feedstock: the process runs with or without
\* CF_TICK_IN_CONTAINER set, use_container is given or left at its default
\* (True), meta_yaml is given or not
FeedInit ==
    \E env \in EnvValues, uc \in UseContainerValues, my \in {"None", "text"} :
       lf = [pc |-> "ready", environ |-> env, use_container |-> uc,
             meta_yaml |-> my, path |-> "none", outcome |-> "none"]

\* line 582: "if use_container:"; the environment plays no part in it
UseContainer(uc, env) == Truthy(uc)

\* lines 582-597: call load_feedstock_containerized or load_feedstock_local
\* with the arguments passed through; what the container, the archive server
\* and the renderer will answer is fixed here
LoadFeedstock ==
    /\ lf.pc = "ready"
    /\ IF UseContainer(lf.use_container, lf.environ)
       THEN /\ \E code \in ExitCodes, out \in Stdouts :
                  ct' = [pc |-> "ready", sub_graph |-> EmptyRecord,
                         meta_yaml |-> IF lf.meta_yaml = "None" THEN "None"
                                       ELSE "meta.yaml text",
                         conda_forge_yaml |-> "None",
                         mark_not_archived |-> FALSE,
                         exit_code |-> code, stdout |-> out, cmd |-> <<>>,
                         outcome |-> "none", exc |-> "", ret |-> NoReturn,
                         logged |-> <<>>]
            /\ lf' = [lf EXCEPT !.pc = "called", !.path = "containerized"]
            /\ UNCHANGED <<migVars, popVars, ext, ld>>
       ELSE /\ \E main \in FetchAnswers, master \in FetchAnswers :
                  ld' = [pc |-> "ready", meta_yaml |-> lf.meta_yaml,
                         conda_forge_yaml |-> "None",
                         main |-> main, master |-> master, requests |-> <<>>,
                         r |-> "unbound", found_branch |-> "None",
                         feedstock_dir |-> "unset", tmpdir |-> "none",
                         staged |-> {}, outcome |-> "none", exc |-> ""]
            /\ \E fs \in LoadFeedstocks :
                  LET prov == EffectiveProvider(fs, "str", EmptyRecord)
                      args == RenderArgs(fs, prov)
                  IN  \E r \in [args -> fs.outs], ord \in IterationOrders(prov) :
                         inp' = [prior |-> EmptyRecord,
                                 meta_yaml |-> "unset",
                                 conda_forge_yaml |-> "unset",
                                 ci |-> fs.ci, provider |-> fs.provider,
                                 set_order |-> ord, renderer |-> r,
                                 mark_not_archived |-> FALSE,
                                 feedstock_dir |-> "unset"]
            /\ lf' = [lf EXCEPT !.pc = "called", !.path = "local"]
            /\ UNCHANGED <<sub_graph, pop_pc, plat_arch, variant_yamls, todo,
                           render_log, written, pop_outcome, exc, ncalls, prev>>
            /\ UNCHANGED <<migVars, ext, ct>>

\* lines 583 and 591: the callee's return value or exception is the caller's
FeedReturn ==
    /\ lf.pc = "called"
    /\ \/ lf.path = "containerized" /\ ct.pc = "done"
          /\ lf' = [lf EXCEPT !.pc = "done", !.outcome = ct.outcome]
       \/ lf.path = "local" /\ ld.pc = "done"
          /\ lf' = [lf EXCEPT !.pc = "done", !.outcome = ld.outcome]
    /\ UNCHANGED <<migVars, popVars, ext, ld, ct>>

FeedNext ==
    \/ LoadFeedstock
    \/ ContPrepare
    \/ ContRun
    \/ LoadEnter
    \/ FetchMain
    \/ FetchMaster
    \/ FetchResult
    \/ LoadRead
    \/ LoadPopulate
    \/ RenderDefault
    \/ RenderCi
    \/ PopulateFinish
    \/ LoadExit
    \/ FeedReturn

\* no call of _extract_requirements on its own is in progress
ExtIdle == ext = [pc |-> "off"]

\* no call of load_feedstock_local is in progress
LoadIdle == ld = [pc |-> "off"]

\* no call of load_feedstock_containerized is in progress
ContIdle == ct = [pc |-> "off"]

\* no call of load_feedstock is in progress
FeedIdle == lf = [pc |-> "off"]

vars == <<migVars, popVars, ext, ld, ct, lf>>


(***************************************************************************)
(* Properties of the dispatcher                                            *)
(***************************************************************************)

InCalls(step) == \E i \in 1..Len(calls) : calls[i] = step

\* C1: in run_migration_local, when migrator.migrate returns a falsy value
\* the call returns at once: commit_message, pr_title and pr_body are None,
\* migrate_return_value is that falsy value, and neither the post hook nor
\* the commit_message / pr_body / pr_title computations were invoked.
C1_FalsyMigrateShortCircuits ==
    (/\ path = "local"
     /\ InCalls("migrate")
     /\ outcome # "raised"
     /\ ~Truthy(migrator.ret))
    => /\ outcome = "returned"
       /\ data = [InitialData EXCEPT !.migrate_return_value = migrator.ret]
       /\ calls = <<"run_pre_piggyback_migrations", "migrate">>

C1_Witness ==
    /\ path = "local"
    /\ outcome = "returned"
    /\ InCalls("migrate")
    /\ migrator.ret = "EmptyDict"
    /\ data.commit_message = "None"

C3_Original ==
    (mig_pc = "done" /\ use_container = "True")
    => /\ outcome = "NotImplementedError"
       /\ calls = <<>>

\* C3 (amended): every call that run_migration hands to the containerized
\* path ends in NotImplementedError without any migrator step having run,
\* and a call with use_container=True takes that path exactly when the
\* process is not inside a container; inside a container it runs
\* run_migration_local.
C3_Amended ==
    /\ path = "containerized"
       => /\ calls = <<>>
          /\ outcome \in {"running", "NotImplementedError"}
          /\ mig_pc = "done" => outcome = "NotImplementedError"
    /\ (path # "none" /\ use_container = "True")
       => (path = "containerized" <=> environ # "true")

C3_Witness ==
    /\ use_container = "True"
    /\ path = "containerized"
    /\ outcome = "NotImplementedError"

\* C4: with use_container=None run_migration takes the containerized path
\* exactly when CF_TICK_IN_CONTAINER is not "true"; and whatever
\* use_container is, a call made inside a container never takes the
\* containerized path.
C4_NoNestedContainer ==
    path # "none"
    => /\ use_container = "None"
          => (path = "containerized" <=> environ # "true")
       /\ environ = "true" => path # "containerized"

C4_Witness ==
    /\ use_container = "None"
    /\ environ = "unset"
    /\ path = "containerized"

\* the context after the pre hook, migrate and the post hook have all run
HooksDone == "[pre][migrate][post]"

\* C14: in a run_migration_local call where migrate returns a truthy value
\* and no step raises, the migrator's methods run once each in the order pre
\* hook, migrate, post hook, then the commit message, PR body and PR title
\* computations; a derived field is never computed before the post hook has
\* run, and each of the three is computed from the context as the three
\* steps before it left it.
C14_LocalStepOrder ==
    path = "local"
    => /\ Len(calls) <= Len(Steps)
       /\ \A i \in 1..Len(calls) : calls[i] = Steps[i]
       /\ (data.commit_message \notin {"None", "absent"})
          => (InCalls(Steps[3]) /\ data.commit_message = "commit_message of " \o HooksDone)
       /\ (data.pr_body \notin {"None", "absent"})
          => (InCalls(Steps[3]) /\ data.pr_body = "pr_body of " \o HooksDone)
       /\ (data.pr_title \notin {"None", "absent"})
          => (InCalls(Steps[3]) /\ data.pr_title = "pr_title of " \o HooksDone)
       /\ (mig_pc = "done" /\ outcome = "returned" /\ Truthy(migrator.ret))
          => /\ calls = Steps
             /\ resLocal.data =
                  [migrate_return_value |-> migrator.ret,
                   commit_message |-> "commit_message of " \o HooksDone,
                   pr_title |-> "pr_title of " \o HooksDone,
                   pr_body |-> "pr_body of " \o HooksDone]

C14_Witness ==
    /\ path = "local"
    /\ mig_pc = "done"
    /\ outcome = "returned"
    /\ migrator.ret = "MigrationUid"
    /\ migrator.raiseAt = "none"
    /\ calls = Steps
    /\ data.pr_title = "pr_title of " \o HooksDone

(***************************************************************************)
(* Properties of populate_feedstock_attributes                             *)
(***************************************************************************)

\* the current call got past the try block: every variant was rendered
RenderingDone ==
    /\ pop_pc \in {"finish", "done"}
    /\ plat_arch # <<>>
    /\ Len(variant_yamls) = Len(plat_arch)
    /\ todo = <<>>

\* the renderer raised during the current call
RenderRaised ==
    \E i \in 1..Len(render_log) : inp.renderer[render_log[i].arg] = RaiseId

\* C5: with no build-config file and no provider key in conda-forge.yml,
\* populate_feedstock_attributes invokes the renderer for (win,64), (osx,64)
\* and (linux,64), once each and in that order, and for no other variant: at
\* any moment the invocations are a prefix of that list, and a call that
\* finishes rendering has made exactly the three.
C5_ThreeDefaultVariants ==
    (/\ inp.meta_yaml = "text"
     /\ inp.conda_forge_yaml = "str"
     /\ inp.ci = {}
     /\ inp.provider = {})
    => LET three == <<<<"win", "64">>, <<"osx", "64">>, <<"linux", "64">>>>
       IN  /\ Len(render_log) <= 3
           /\ \A i \in 1..Len(render_log) : render_log[i].key = three[i]
           /\ (pop_pc \in {"finish", "done"} /\ ~RenderRaised)
              => Len(render_log) = 3

C5_Witness ==
    /\ inp.ci = {}
    /\ inp.provider = {}
    /\ inp.conda_forge_yaml = "str"
    /\ pop_pc = "done"
    /\ pop_outcome = "returned"
    /\ Len(render_log) = 3
    /\ "total_requirements" \in DOMAIN sub_graph

\* C6: when every rendered variant is empty, so that the merge is empty,
\* populate_feedstock_attributes returns without raising, parsing_error is
\* an error string, and the record has no total_requirements key even if the
\* record passed in had one.
C6_EmptyMerge ==
    (/\ pop_pc = "done"
     /\ RenderingDone
     /\ \A i \in 1..Len(variant_yamls) : DOMAIN variant_yamls[i] = {})
    => /\ pop_outcome = "returned"
       /\ sub_graph["parsing_error"] = "make_graph: Could not parse"
       /\ "total_requirements" \notin DOMAIN sub_graph

C6_Witness ==
    /\ pop_pc = "done"
    /\ RenderingDone
    /\ \A i \in 1..Len(variant_yamls) : DOMAIN variant_yamls[i] = {}
    /\ "total_requirements" \in DOMAIN inp.prior
    /\ ncalls = 1
    /\ pop_outcome = "returned"

\* the per-variant keys of the variants rendered so far
PerVariantKeys ==
    UNION {{PlatArchName(render_log[i].key) \o "_meta_yaml",
            PlatArchName(render_log[i].key) \o "_requirements"} :
              i \in 1..Len(render_log)}

\* C7: when the renderer raises for a variant, that render is the last one of
\* the call, the call ends by raising that exception, parsing_error is a
\* string that contains the exception text, and the call has written no
\* meta_yaml, platforms, total_requirements or per-variant key.
C7_RenderErrorAborts ==
    RenderRaised
    => /\ inp.renderer[render_log[Len(render_log)].arg] = RaiseId
       /\ \A i \in 1..(Len(render_log) - 1) :
             inp.renderer[render_log[i].arg] # RaiseId
       /\ pop_pc = "done"
       /\ pop_outcome = "raised"
       /\ exc = RenderErrorText
       /\ sub_graph["parsing_error"] # "False"
       /\ EndsWith(sub_graph["parsing_error"], RenderErrorText)
       /\ written \cap ({"meta_yaml", "platforms", "total_requirements"}
                          \cup PerVariantKeys) = {}

C7_Witness ==
    /\ RenderRaised
    /\ Len(render_log) = 2
    /\ pop_outcome = "raised"
    /\ "platforms" \in DOMAIN sub_graph

\* C8: a second call on the record the first call returned, with the same
\* meta.yaml text, conda-forge.yml text, build-config files and renderer,
\* returns a record equal to the first one, key for key and value for value.
C8_Idempotent ==
    (ncalls >= 2 /\ pop_pc = "done" /\ pop_outcome = "returned")
    => sub_graph = prev

C8_Witness ==
    /\ ncalls = 2
    /\ pop_pc = "done"
    /\ pop_outcome = "returned"
    /\ "total_requirements" \in DOMAIN sub_graph
    /\ "linux_ppc64le_meta_yaml" \in DOMAIN inp.prior
    /\ sub_graph = prev


\* the current call stored a merged meta_yaml
MetaWritten == pop_pc = "done" /\ "meta_yaml" \in written

\* the variants of the current call that define the top-level key k
Defining(k) == {i \in 1..Len(plat_arch) : k \in DOMAIN variant_yamls[i]}

\* a variant of the set I whose (platform, arch) key no other exceeds
Greatest(I) ==
    CHOOSE i \in I : \A j \in I : ~KeyLess(plat_arch[i], plat_arch[j])

\* the variants in ascending (platform, arch) order, by counting the smaller
Ascending ==
    LET n == Len(plat_arch)
        rank(i) == Cardinality({j \in 1..n :
                      \/ KeyLess(plat_arch[j], plat_arch[i])
                      \/ plat_arch[j] = plat_arch[i] /\ j < i})
    IN  [p \in 1..n |-> CHOOSE i \in 1..n : rank(i) = p - 1]

\* the kinds of value the variants of I hold under key k
KindsAt(k, I) == {variant_yamls[i][k].kind : i \in I}

\* the top-level keys of all variants
VariantKeys == UNION {DOMAIN variant_yamls[i] : i \in 1..Len(variant_yamls)}

SharedKeyFiles == {"linux64.yaml", "linux_64_py38.yaml", "linux_py39.yaml"}

\* the cleaned renders of the three files, in the order they are rendered
Layers ==
    LET files == SortStrings(SharedKeyFiles)
    IN  [i \in 1..3 |-> CleanRender(RecipeOf(inp.renderer[files[i]])).yml]

\* the three renders that share a key have been collapsed into one variant
Collapsed ==
    /\ inp.ci = SharedKeyFiles
    /\ pop_pc \in {"finish", "done"}
    /\ todo = <<>>
    /\ Len(render_log) = 3
    /\ Len(variant_yamls) = 1

\* the layers of Layers that define the top-level key k
LayersDefining(k) == {i \in 1..3 : k \in DOMAIN Layers[i]}

\* the last layer that defines the top-level key k
LastLayer(k) == CHOOSE i \in LayersDefining(k) : \A j \in LayersDefining(k) : j <= i

C15_OneEntryPerKey ==
    pop_pc = "finish"
    => /\ Len(variant_yamls) = Len(plat_arch)
       /\ \A i, j \in 1..Len(plat_arch) : i < j => plat_arch[i] # plat_arch[j]

\* the current call returned a populated record
Populated == MetaWritten /\ pop_outcome = "returned"

\* "{platform}_{arch}" of a (platform, arch) key
KeyName(k) == k[1] \o "_" \o k[2]

\* C16 (as stated): after a successful call the platforms field lists each
\* rendered variant exactly once as "{platform}_{arch}", in the ascending
\* (platform, arch) order in which the merge layers the variants.
C16_Original ==
    Populated
    => LET platforms == sub_graph["platforms"]
           n == Len(plat_arch)
       IN  /\ Len(platforms) = n
           /\ \A p \in 1..n : platforms[p] = KeyName(plat_arch[Ascending[p]])
           /\ \A p, q \in 1..n : p < q => platforms[p] # platforms[q]

\* C16 (amended): after a successful call the platforms field lists the
\* variants as "{platform}_{arch}" in the order of discovery: on the
\* build-config path each distinct (platform, arch) once, in the order in
\* which its first file was rendered; on the default path one entry per
\* render, in the order of the renders.
C16_Amended ==
    Populated
    => LET all == [i \in 1..Len(render_log) |-> i]
           first(i) == \A j \in 1..(i - 1) : render_log[j].key # render_log[i].key
           idx == IF inp.ci = {} THEN all ELSE SelectSeq(all, first)
       IN  sub_graph["platforms"] =
              [p \in 1..Len(idx) |-> KeyName(render_log[idx[p]].key)]

\* a successful call on the default path with two provider variants: five
\* entries, the first of them win_64, which is the last in ascending order
C16_Witness ==
    /\ Populated
    /\ inp.ci = {}
    /\ Len(sub_graph["platforms"]) = 5
    /\ sub_graph["platforms"][1] = "win_64"
    /\ Ascending[5] = 1

\* a key that ends in meta_yaml or requirements, or is req
DerivedKey(k) ==
    \/ Len(k) >= 9 /\ SubSeq(k, Len(k) - 8, Len(k)) = "meta_yaml"
    \/ Len(k) >= 12 /\ SubSeq(k, Len(k) - 11, Len(k)) = "requirements"
    \/ k = "req"

\* C17: for any prior record and any meta_yaml text, once the call has ended,
\* by return or by raise, every key of the record that ends in meta_yaml or
\* requirements or equals req was written by this call, and every
\* "{platform}_{arch}_meta_yaml" or "{platform}_{arch}_requirements" key is
\* that of a variant of this call.
C17_NoStaleKeys ==
    (inp.meta_yaml = "text" /\ pop_pc = "done")
    => /\ \A k \in DOMAIN sub_graph : DerivedKey(k) => k \in written
       /\ \A plat \in {"linux", "osx", "win"},
             arch \in {"64", "aarch64", "ppc64le"},
             suffix \in {"_meta_yaml", "_requirements"} :
             (plat \o "_" \o arch \o suffix) \in DOMAIN sub_graph
             => \E i \in 1..Len(plat_arch) : plat_arch[i] = <<plat, arch>>

\* a call on a record that held the keys of linux_ppc64le, which is no longer
\* rendered
C17_Witness ==
    /\ inp.meta_yaml = "text"
    /\ pop_pc = "done"
    /\ pop_outcome = "returned"
    /\ "linux_ppc64le_meta_yaml" \in DOMAIN inp.prior
    /\ "linux_ppc64le_requirements" \in DOMAIN inp.prior
    /\ "linux_ppc64le_meta_yaml" \notin DOMAIN sub_graph
    /\ "linux_64_meta_yaml" \in DOMAIN sub_graph
    /\ "total_requirements" \in written

(***************************************************************************)
(* Properties of _extract_requirements                                     *)
(***************************************************************************)

\* the four sections of a requirements bundle
Sections == {"build", "host", "run", "test"}

\* the blocks the call processes: the root and its outputs, or the outputs
\* selected by outputs_to_keep
Processed ==
    LET outs == IF "outputs" \in DOMAIN ext.meta_yaml
                   /\ ext.meta_yaml["outputs"].kind = "list"
                THEN ext.meta_yaml["outputs"].l ELSE <<>>
        kept == {i \in 1..Len(outs) : outs[i]["name"].s \in ext.outputs_to_keep}
    IN  IF ext.outputs_to_keep = {}
        THEN {ext.meta_yaml} \cup {outs[i] : i \in 1..Len(outs)}
        ELSE {outs[i] : i \in kept}

\* a recipe whose "outputs" is a list where present and whose processed
\* blocks have a mapping under "test" where present
WellFormed ==
    /\ "outputs" \in DOMAIN ext.meta_yaml => ext.meta_yaml["outputs"].kind = "list"
    /\ \A blk \in Processed : "test" \in DOMAIN blk => blk["test"].kind = "map"

\* a block whose requirements are a non-empty bare list
BareList(blk) ==
    /\ "requirements" \in DOMAIN blk
    /\ blk["requirements"].kind = "list"
    /\ blk["requirements"].l # <<>>

\* the characters a pin-stripped name may not contain: the pin separators
\* and the upper-case letters
Forbidden ==
    {" ", ">", "<", "=", "["}
    \cup {SubSeq("ABCDEFGHIJKLMNOPQRSTUVWXYZ", i, i) : i \in 1..26}

\* C11: for a well-formed recipe, whose requirement lists may hold None
\* entries, _extract_requirements does not raise, neither bundle holds None,
\* and every name of the pin-stripped bundle is lower-case and holds none of
\* the characters space, >, <, =, [.
C11_NoNoneNoPins ==
    (ext.pc = "done" /\ WellFormed)
    => /\ ext.outcome = "returned"
       /\ \A k \in DOMAIN ext.res.requirements_dict :
             PyNone \notin ext.res.requirements_dict[k]
       /\ \A k \in DOMAIN ext.res.req_no_pins :
             /\ PyNone \notin ext.res.req_no_pins[k]
             /\ \A name \in ext.res.req_no_pins[k] :
                   \A i \in 1..Len(name) : SubSeq(name, i, i) \notin Forbidden

\* a call on a recipe with None entries and pinned, mixed-case names
C11_Witness ==
    /\ ext.pc = "done"
    /\ WellFormed
    /\ ext.outcome = "returned"
    /\ "requirements" \in DOMAIN ext.meta_yaml
    /\ ext.meta_yaml["requirements"] =
          M([host |-> NoneV, run |-> L(<<"NumPy [win]", PyNone>>)])
    /\ "test" \in DOMAIN ext.meta_yaml
    /\ ext.res.requirements_dict["run"] = {"NumPy [win]"}
    /\ ext.res.req_no_pins["run"] = {"numpy"}
    /\ ext.res.req_no_pins["host"] = {}

\* a block whose build.run_exports is a mapping with a truthy "strong" entry
MarksStrong(blk) ==
    /\ "build" \in DOMAIN blk
    /\ blk["build"].kind = "map"
    /\ "run_exports" \in DOMAIN blk["build"].m
    /\ blk["build"].m["run_exports"].kind = "map"
    /\ "strong" \in DOMAIN blk["build"].m["run_exports"].m
    /\ blk["build"].m["run_exports"].m["strong"].kind = "list"
    /\ blk["build"].m["run_exports"].m["strong"].l # <<>>

\* C18: _extract_requirements returns strong_exports true if and only if
\* some processed block has a build.run_exports mapping whose strong entry is
\* truthy, a block with bare-list requirements included.
C18_StrongExportsIff ==
    (ext.pc = "done" /\ ext.outcome = "returned")
    => (ext.res.strong_exports <=> \E blk \in Processed : MarksStrong(blk))

\* C19 (as stated): both bundles always hold the four keys build, host, run
\* and test.
C19_Original ==
    (ext.pc = "done" /\ ext.outcome = "returned")
    => /\ DOMAIN ext.res.requirements_dict = Sections
       /\ DOMAIN ext.res.req_no_pins = Sections

\* C19 (amended): both bundles hold the same keys, each with a set as value:
\* the four keys build, host, run and test when some processed block does not
\* have bare-list requirements, the key run alone when every processed block
\* has bare-list requirements, and no key when no block is processed.
C19_Amended ==
    (ext.pc = "done" /\ ext.outcome = "returned")
    => LET keys == IF \E blk \in Processed : ~BareList(blk) THEN Sections
                   ELSE IF Processed # {} THEN {"run"}
                   ELSE {}
       IN  /\ DOMAIN ext.res.requirements_dict = keys
           /\ DOMAIN ext.res.req_no_pins = keys
           /\ \A k \in keys :
                 Cardinality(ext.res.req_no_pins[k])
                    <= Cardinality(ext.res.requirements_dict[k])

\* a call in which the only processed block has bare-list requirements
C19_Witness ==
    /\ ext.pc = "done"
    /\ ext.outcome = "returned"
    /\ Processed # {}
    /\ \A blk \in Processed : BareList(blk)
    /\ DOMAIN ext.res.requirements_dict = {"run"}
    /\ ext.res.req_no_pins["run"] = {"zlib"}

(***************************************************************************)
(* Properties of load_feedstock_containerized                              *)
(***************************************************************************)

\* the container's output is a JSON envelope
IsEnvelope(out) == "container_stdout_stderr" \in DOMAIN out

\* C13: load_feedstock_containerized returns, and returns the envelope's
\* data field, exactly when the container exits with code 0 and its envelope
\* has no error field; a nonzero exit code or an envelope with an error field
\* ends in a raised exception and nothing is returned.
C13_ContainerContract ==
    ct.pc = "done"
    => /\ ct.outcome \in {"returned", "raised"}
       /\ ct.outcome = "returned"
          <=> (/\ ct.exit_code = 0
               /\ IsEnvelope(ct.stdout)
               /\ "error" \notin DOMAIN ct.stdout)
       /\ ct.outcome = "returned" => ct.ret = ct.stdout["data"]
       /\ (ct.exit_code # 0 \/ "error" \in DOMAIN ct.stdout)
          => (ct.outcome = "raised" /\ ct.ret = NoReturn)

\* a call that returned the data of a container that exited with 0
C13_Witness ==
    /\ ct.pc = "done"
    /\ ct.exit_code = 0
    /\ ct.outcome = "returned"
    /\ ct.ret = [feedstock_name |-> "pkg", parsing_error |-> "False", version |-> "1.0"]
    /\ ct.ret # ct.sub_graph

\* the positions in LogLevels of the levels whose marker occurs in text
MarkersIn(text) ==
    {i \in 1..Len(LogLevels) : Contains(text, Marker(LogLevels[i]))}

\* C21: load_feedstock_containerized re-emits the captured container log at
\* most once per call: when the envelope was read, at the most severe of
\* critical, error, warning, info, debug whose marker occurs in the log after
\* the numpy warning was cut out of it, and not at all when no marker occurs;
\* this also holds for the calls that end in the RuntimeError of an envelope
\* with an error field, whose log was emitted before the raise.
C21_LogReemittedOnce ==
    ct.pc = "done"
    => /\ Len(ct.logged) <= 1
       /\ (ct.exit_code = 0 /\ IsEnvelope(ct.stdout))
          => LET text == Scrub(ct.stdout["container_stdout_stderr"])
                 found == MarkersIn(text)
             IN  IF found = {} THEN ct.logged = <<>>
                 ELSE /\ ct.logged =
                           <<[level |-> LogLevels[CHOOSE i \in found :
                                                    \A j \in found : i <= j],
                              text |-> text]>>
                      /\ "error" \in DOMAIN ct.stdout => ct.exc = "RuntimeError"

\* a call that raised for an error envelope whose log holds a debug marker
\* before an error marker: the log was emitted at error
C21_Witness ==
    /\ ct.pc = "done"
    /\ ct.outcome = "raised"
    /\ ct.exc = "RuntimeError"
    /\ MarkersIn(ct.stdout["container_stdout_stderr"]) = {2, 5}
    /\ Len(ct.logged) = 1
    /\ ct.logged[1].level = "error"

(***************************************************************************)
(* Properties of load_feedstock_local and _fetch_static_repo               *)
(***************************************************************************)

\* C12: the temporary directory load_feedstock_local stages the fetched tree
\* in exists only while the call is inside its with block; when the call has
\* ended, by a normal return, by the early return after a failed fetch or a
\* parse error, or by an exception raised while fetching or by
\* populate_feedstock_attributes, the directory and what was staged in it are
\* gone.
C12_TmpdirRemoved ==
    /\ ld.pc = "done" => (ld.tmpdir = "removed" /\ ld.staged = {})
    /\ ld.pc = "ready" => ld.tmpdir = "none"
    /\ ld.staged # {} => ld.tmpdir = "exists"

\* a call that staged a tree and ended in the renderer's exception
C12_Witness ==
    /\ ld.pc = "done"
    /\ ld.feedstock_dir = "path"
    /\ ld.outcome = "raised"
    /\ ld.exc = RenderErrorText
    /\ ld.tmpdir = "removed"

\* neither archive could be downloaded
BothFailed == ld.main # "200" /\ ld.master # "200"

\* the record's parsing_error holds an error message
ParsingErrorSet ==
    /\ "parsing_error" \in DOMAIN sub_graph
    /\ sub_graph["parsing_error"] # "False"

\* the exceptions that carry a failed download
FetchFailures == {"HTTPError", "ConnectionError"}

\* C20: _fetch_static_repo requests the archive of main first and that of
\* master only if main failed, and returns a directory path exactly when one
\* of the downloads succeeded; when both fail, load_feedstock_local renders
\* no variant and ends with the failure visible to its caller, in the
\* record's parsing_error or as an exception carrying the failure, whether or
\* not the caller supplied the meta.yaml text.
C20_FetchFailureVisible ==
    /\ ld.pc \in {"status", "read", "populate", "populating", "done"}
       => /\ ld.requests = IF ld.main = "200" THEN <<"main">>
                           ELSE <<"main", "master">>
    /\ ld.pc \in {"read", "populate", "populating", "done"}
       => (ld.feedstock_dir = "path" <=> ~BothFailed)
    /\ (ld.pc = "done" /\ BothFailed)
       => /\ render_log = <<>>
          /\ \/ ld.outcome = "returned" /\ ParsingErrorSet
             \/ ld.outcome = "raised" /\ ld.exc \in FetchFailures

\* C22: whenever a call of populate_feedstock_attributes has ended by raising
\* an exception, whatever the step that raised (the reading of the inputs,
\* variant discovery, rendering, the merge, requirement extraction, output
\* names or source handling), the record's parsing_error is an error string
\* and not False.
C22_RaiseSetsParsingError ==
    (pop_pc = "done" /\ pop_outcome = "raised") => ParsingErrorSet

(***************************************************************************)
(* Properties of load_feedstock                                            *)
(***************************************************************************)

\* C23: when the process already runs inside a container
\* (CF_TICK_IN_CONTAINER is "true"), load_feedstock never gets as far as the
\* container subprocess, whatever use_container is, its default included: no
\* call of load_feedstock_containerized is started, and the feedstock is
\* parsed by load_feedstock_local.
C23_NoNestedContainer ==
    InContainer(lf.environ)
    => /\ ct.pc = "off"
       /\ lf.pc \in {"called", "done"} => lf.path = "local"

\* the dispatcher on its own
MigStart ==
    /\ MigInit
    /\ PopIdle
    /\ ExtIdle
    /\ LoadIdle
    /\ ContIdle
    /\ FeedIdle

SpecMig == MigStart /\ [][MigNext]_vars

\* populate_feedstock_attributes on its own
PopStart ==
    /\ PopInit
    /\ MigIdle
    /\ ExtIdle
    /\ LoadIdle
    /\ ContIdle
    /\ FeedIdle

SpecPop == PopStart /\ [][PopNext]_vars

\* _extract_requirements on its own
ExtStart ==
    /\ ExtInit
    /\ MigIdle
    /\ PopIdle
    /\ LoadIdle
    /\ ContIdle
    /\ FeedIdle

SpecExt == ExtStart /\ [][ExtNext]_vars

\* load_feedstock_containerized on its own
ContStart ==
    /\ ContInit
    /\ MigIdle
    /\ PopIdle
    /\ ExtIdle
    /\ LoadIdle
    /\ FeedIdle

SpecCont == ContStart /\ [][ContNext]_vars

\* load_feedstock_local on its own
LoadStart ==
    /\ LoadInit
    /\ MigIdle
    /\ ExtIdle
    /\ ContIdle
    /\ FeedIdle

SpecLoad == LoadStart /\ [][LoadNext]_vars

\* load_feedstock with the implementation it dispatches to
FeedStart ==
    /\ FeedInit
    /\ MigIdle
    /\ PopIdle
    /\ ExtIdle
    /\ LoadIdle
    /\ ContIdle

SpecFeed == FeedStart /\ [][FeedNext]_vars

====
